---- MODULE Spec2Model ----
(***************************************************************************)
(* State-machine model of go-system-config-service: the configuration      *)
(* version store (configs, config_versions, config_audit_log) and the      *)
(* secret vault (secrets), as persisted by the repositories.  Repository   *)
(* operations are operators over the collections, translated from          *)
(* internal/repository; the service layer composes them.                   *)
(***************************************************************************)
EXTENDS Integers, Sequences, FiniteSets, TLC

\* ------------------------------------------------------------------ bounds
MaxConfigs == 2        \* configs ever inserted
MaxVersion == 3        \* cap on Config.version
MaxAudit == 4          \* cap on audit rows
MaxSecrets == 2        \* secrets ever inserted
MaxSecretVersion == 2  \* cap on Secret.version
MaxTime == 5           \* clock ticks
MaxRotationDays == 2   \* largest rotation_days a caller supplies
TicksPerDay == 2       \* clock resolution: ticks in one day
MaxSubs == 2           \* subscriptions ever inserted
MaxAccessLog == 2      \* cap on secret_access_log rows
MaxVaultCalls == 3     \* secret calls that run to their end, concurrent vault
MaxTrail == 3          \* audit and access log rows together, audit trail
MaxKeyLen == 4         \* characters in a config key handed to the matcher
MaxPatternLen == 4     \* characters in a pattern handed to the matcher
MaxPlainLen == 2       \* bytes in a plaintext handed to Encrypt
MaxComponents == 2     \* app components ever created
MaxTotalItems == 4     \* documents a List query counts

\* ------------------------------------------------------------------ inputs
Tenants == {"", "t1"}
Keys == {"api.rate_limit"}
EnvInputs == {"production", "qa"}
Values == {100, 200}
Workers == {1, 2}

\* ------------------------------------------------------------------ domain
ValidEnvironments == {"development", "staging", "production"}

IsValidEnvironment(env) == env \in ValidEnvironments

ConfigStatuses == {"active", "inactive", "archived"}

VersionStatuses == {"draft", "active", "archived"}

\* Config.Validate: the error, or "" when the config is valid.
Config_Validate(c) ==
    IF c.config_key = "" THEN "config_key is required"
    ELSE IF c.environment = "" THEN "environment is required"
    ELSE IF ~IsValidEnvironment(c.environment) THEN "environment must be one of"
    ELSE IF (IF c.status = "" THEN "active" ELSE c.status) \notin ConfigStatuses
         THEN "status must be one of"
    ELSE ""

\* Config.Validate's side effect: an empty status defaults to active.
Config_Defaulted(c) == [c EXCEPT !.status = IF @ = "" THEN "active" ELSE @]

\* ConfigVersion.Validate's side effect: an empty status defaults to draft.
ConfigVersion_Defaulted(v) == [v EXCEPT !.status = IF @ = "" THEN "draft" ELSE @]

\* ConfigVersion.Validate: the error, or "" when the version is valid.
ConfigVersion_Validate(v) ==
    IF v.config_id = 0 THEN "config_id is required"
    ELSE IF v.config_key = "" THEN "config_key is required"
    ELSE IF v.version_number < 1 THEN "version_number must be positive"
    ELSE IF ConfigVersion_Defaulted(v).status \notin VersionStatuses
         THEN "status must be one of"
    ELSE ""

\* ------------------------------------------------------------------ state
VARIABLES
    configs,      \* collection "configs": set of Config documents
    nextId,       \* next ObjectID the store hands out for a config
    versions,     \* collection "config_versions", in insertion order
    auditLog,     \* collection "config_audit_log", in insertion order
    lastOp,       \* the last service call that returned, with its result
    pc,           \* per worker: position inside an in-flight service call
    req,          \* per worker: arguments and locals of the in-flight call
    done,         \* per worker: the last call that returned
    secrets,      \* collection "secrets": set of Secret documents
    nextSecretId, \* next ObjectID the store hands out for a secret
    now,          \* the clock, in ticks
    rotationDue,  \* ids returned by the last GetSecretsNeedingRotation
    accessLog,    \* collection "secret_access_log", in insertion order
    encKey,       \* the key the running process's Encryptor holds
    response,     \* the last HTTP response a secret handler wrote
    subs,         \* collection "watch_subscriptions": set of documents
    nextSubId,    \* next ObjectID the store hands out for a subscription
    event,        \* the change the last dispatch was about
    attempts,     \* subscriptions the last dispatch tried to deliver to
    failedSince,  \* per subscription: failures recorded since its last success
    matchIn,      \* the pattern and the key handed to the matcher
    matchOut,     \* what the matcher answered
    callIn,       \* the request or the arguments of the last call
    callOut,      \* what that call answered
    countries,    \* collection "countries": set of Country documents
    countryCache, \* the cache CountryService reads and writes, by key
    components,   \* collection "app_components": set of documents
    nextComponentId, \* the next _id the collection gives out
    componentCache \* the cache AppComponentService reads and writes, by key

vars == <<configs, nextId, versions, auditLog, lastOp, pc, req, done,
          secrets, nextSecretId, now, rotationDue, accessLog, encKey, response,
          subs, nextSubId, event, attempts, failedSince, matchIn, matchOut,
          callIn, callOut, countries, countryCache, components, nextComponentId,
          componentCache>>

configVars == <<configs, nextId, versions, auditLog>>
workerVars == <<pc, req, done>>
secretVars == <<secrets, nextSecretId, now, rotationDue>>
vaultVars == <<accessLog, encKey, response>>
watchVars == <<subs, nextSubId, event, attempts, failedSince, matchIn, matchOut>>
callVars == <<callIn, callOut>>
catalogVars == <<countries, countryCache, components, nextComponentId, componentCache>>

NoOp == [op |-> "none", id |-> 0, n |-> 0, result |-> ""]

NoResponse == [status |-> 0, body |-> [error |-> ""]]

NoMatch == [pattern |-> <<>>, key |-> <<>>]

NoCall == [op |-> "none"]

NoEvent == [key |-> <<>>, tenant_id |-> "", environment |-> ""]

SubIds == 1..MaxSubs

CountryCodes == {"US", "VN"}

ComponentIds == 1..MaxComponents

ComponentTenants == {"t1"}

ComponentCodes == {"web", "api"}

\* system-config:app-component:id:<id> and
\* system-config:app-component:<tenant>:<code>.
IdKey(id) == [kind |-> "id", id |-> id, tenant_id |-> "", code |-> ""]

CodeKey(tenantID, code) == [kind |-> "code", id |-> 0, tenant_id |-> tenantID, code |-> code]

ComponentKeys ==
    {IdKey(id) : id \in ComponentIds}
    \cup {CodeKey(tenantID, code) : tenantID \in ComponentTenants, code \in ComponentCodes}

\* A cache key that holds nothing, one that holds the negative marker, and
\* one that holds the JSON of a document.
NoEntry == [text |-> "", doc |-> {}]

NotFoundEntry == [text |-> "NOT_FOUND", doc |-> {}]

JSONEntry(doc) == [text |-> "json", doc |-> {doc}]

NoReq == [op |-> "none", id |-> 0, n |-> 0, tenant |-> "", key |-> "",
          env |-> "", value |-> 0, cfg |-> {}, ver |-> 0]

InitStores ==
    /\ configs = {}
    /\ nextId = 1
    /\ versions = <<>>
    /\ auditLog = <<>>
    /\ lastOp = NoOp
    /\ pc = [w \in Workers |-> "idle"]
    /\ req = [w \in Workers |-> NoReq]
    /\ done = [w \in Workers |-> NoOp]
    /\ secrets = {}
    /\ nextSecretId = 1
    /\ now = 0
    /\ rotationDue = {}
    /\ accessLog = <<>>
    /\ encKey = 1
    /\ response = NoResponse
    /\ subs = {}
    /\ nextSubId = 1
    /\ event = NoEvent
    /\ attempts = {}
    /\ failedSince = [i \in SubIds |-> 0]
    /\ countries = {}
    /\ countryCache = [code \in CountryCodes |-> NoEntry]
    /\ components = {}
    /\ nextComponentId = 1
    /\ componentCache = [key \in ComponentKeys |-> NoEntry]

Init ==
    /\ InitStores
    /\ matchIn = NoMatch
    /\ matchOut = FALSE
    /\ callIn = NoCall
    /\ callOut = NoCall

\* ------------------------------------------------------- ConfigRepository
\* FindOne returns the first document in insertion order.
FirstDoc(S) == IF S = {} THEN {} ELSE {CHOOSE c \in S : \A d \in S : c.id <= d.id}

\* Create: Version = 1, InsertOne, the inserted id is written back.
ConfigRepo_Create(cfgs, id, c) == cfgs \cup {[c EXCEPT !.id = id, !.version = 1]}

\* FindByID: the document, or nil (the empty set).
ConfigRepo_FindByID(cfgs, id) == FirstDoc({c \in cfgs : c.id = id})

\* FindByKey: tenant_id joins the filter only when it is not empty.
ConfigRepo_FindByKey(cfgs, tenantID, environment, key) ==
    FirstDoc({c \in cfgs : /\ c.config_key = key
                           /\ c.environment = environment
                           /\ (tenantID # "" => c.tenant_id = tenantID)})

\* Variant of Update that forgets config.Version++.
ConfigRepo_UpdateBump_NoIncrement(c) == c

\* Update, on the caller's struct: config.Version++.
ConfigRepo_UpdateBump(c) == [c EXCEPT !.version = @ + 1]

\* Update, on the store: $set of the whole struct on the document with its id.
ConfigRepo_Update(cfgs, c) ==
    IF \E d \in cfgs : d.id = c.id
    THEN {d \in cfgs : d.id # c.id} \cup {ConfigRepo_UpdateBump(c)}
    ELSE cfgs

\* Delete: DeleteOne on the configs collection only.
ConfigRepo_Delete(cfgs, id) == {c \in cfgs : c.id # id}

\* CreateVersion: InsertOne, no uniqueness check.
ConfigRepo_CreateVersion(vs, v) == Append(vs, v)

\* Variant of GetVersion whose filter drops version_number.
ConfigRepo_GetVersion_AnyNumber(vs, configID, versionNumber) ==
    LET M == {i \in DOMAIN vs : vs[i].config_id = configID}
    IN IF M = {} THEN 0 ELSE CHOOSE i \in M : \A j \in M : i >= j

\* GetVersion: index of the first row of (configID, versionNumber); 0 is nil.
ConfigRepo_GetVersion(vs, configID, versionNumber) ==
    LET M == {i \in DOMAIN vs : /\ vs[i].config_id = configID
                                /\ vs[i].version_number = versionNumber}
    IN IF M = {} THEN 0 ELSE CHOOSE i \in M : \A j \in M : i <= j

\* Variant of ActivateVersion's first write that deactivates nothing.
ConfigRepo_DeactivateAll_Skip(vs, configID) == vs

\* Variant of ActivateVersion's first write that also archives the rows.
ConfigRepo_DeactivateAll_Archive(vs, configID) ==
    [i \in DOMAIN vs |->
        IF vs[i].config_id = configID
        THEN [vs[i] EXCEPT !.is_active = FALSE, !.status = "archived"]
        ELSE vs[i]]

\* ActivateVersion, first write: UpdateMany is_active=false on the config's rows.
ConfigRepo_DeactivateAll(vs, configID) ==
    [i \in DOMAIN vs |->
        IF vs[i].config_id = configID THEN [vs[i] EXCEPT !.is_active = FALSE] ELSE vs[i]]

\* ActivateVersion, second write: UpdateOne is_active=true, status=active on
\* the first row of (configID, versionNumber); no row matched changes nothing.
ConfigRepo_ActivateOne(vs, configID, versionNumber) ==
    LET i == ConfigRepo_GetVersion(vs, configID, versionNumber)
    IN IF i = 0 THEN vs
       ELSE [vs EXCEPT ![i] = [@ EXCEPT !.is_active = TRUE, !.status = "active"]]

\* ActivateVersion: the two writes, one after the other.
ConfigRepo_ActivateVersion(vs, configID, versionNumber) ==
    ConfigRepo_ActivateOne(ConfigRepo_DeactivateAll(vs, configID), configID, versionNumber)

\* CreateAuditLog: InsertOne.
ConfigRepo_CreateAuditLog(al, resourceID, action) ==
    Append(al, [resource_id |-> resourceID, action |-> action])

\* --------------------------------------------- ConfigService, call by call
\* The service layer sits between ConfigHandler and ConfigRepository.  Each
\* action below is one whole service call: its store reads and writes run
\* back to back, with no other call in between.

NewConfig(t, k, e, v) ==
    [id |-> 0, tenant_id |-> t, config_key |-> k, environment |-> e,
     value |-> v, version |-> 0, status |-> ""]

NewVersion(c, n, v, active) ==
    [config_id |-> c.id, config_key |-> c.config_key, version_number |-> n,
     value |-> v, status |-> IF active THEN "active" ELSE "", is_active |-> active]

TheDoc(S) == CHOOSE c \in S : TRUE

Returned(op, id, n, result) == [op |-> op, id |-> id, n |-> n, result |-> result]

\* The served value of a config follows the version that was activated.
SetServedValue(cfgs, id, v) ==
    {IF c.id = id THEN [c EXCEPT !.value = v] ELSE c : c \in cfgs}

HasAuditRoom == Len(auditLog) < MaxAudit

Create(t, k, e, v) ==
    LET c == NewConfig(t, k, e, v)
        existing == ConfigRepo_FindByKey(configs, t, e, k)
        stored == [Config_Defaulted(c) EXCEPT !.id = nextId, !.version = 1]
    IN /\ UNCHANGED <<workerVars, secretVars, vaultVars, watchVars, callVars, catalogVars>>
       /\ \/ /\ Config_Validate(c) # ""
             /\ lastOp' = Returned("create", 0, 0, "validation")
             /\ UNCHANGED configVars
          \/ /\ Config_Validate(c) = ""
             /\ existing # {}
             /\ lastOp' = Returned("create", TheDoc(existing).id, 0, "conflict")
             /\ UNCHANGED configVars
          \/ /\ Config_Validate(c) = ""
             /\ existing = {}
             /\ nextId <= MaxConfigs
             /\ HasAuditRoom
             /\ configs' = ConfigRepo_Create(configs, nextId, Config_Defaulted(c))
             /\ nextId' = nextId + 1
             /\ versions' = ConfigRepo_CreateVersion(versions, NewVersion(stored, 1, v, TRUE))
             /\ auditLog' = ConfigRepo_CreateAuditLog(auditLog, nextId, "create")
             /\ lastOp' = Returned("create", nextId, 1, "ok")

Update(id, v) ==
    LET found == ConfigRepo_FindByID(configs, id)
        c == [TheDoc(found) EXCEPT !.value = v]
        n == ConfigRepo_UpdateBump(c).version
    IN /\ UNCHANGED <<workerVars, secretVars, vaultVars, watchVars, callVars, catalogVars>>
       /\ \/ /\ found = {}
             /\ lastOp' = Returned("update", id, 0, "not_found")
             /\ UNCHANGED configVars
          \/ /\ found # {}
             /\ n <= MaxVersion
             /\ HasAuditRoom
             /\ configs' = ConfigRepo_Update(configs, c)
             /\ versions' = ConfigRepo_CreateVersion(
                                versions, ConfigVersion_Defaulted(NewVersion(c, n, v, FALSE)))
             /\ auditLog' = ConfigRepo_CreateAuditLog(auditLog, id, "update")
             /\ lastOp' = Returned("update", id, n, "ok")
             /\ UNCHANGED nextId

ActivateVersion(id, n) ==
    LET i == ConfigRepo_GetVersion(versions, id, n)
    IN /\ UNCHANGED <<workerVars, secretVars, vaultVars, watchVars, callVars, catalogVars>>
       /\ \/ /\ i = 0
             /\ lastOp' = Returned("activate", id, n, "not_found")
             /\ UNCHANGED configVars
          \/ /\ i # 0
             /\ HasAuditRoom
             /\ versions' = ConfigRepo_ActivateVersion(versions, id, n)
             /\ configs' = SetServedValue(configs, id, versions[i].value)
             /\ auditLog' = ConfigRepo_CreateAuditLog(auditLog, id, "activate")
             /\ lastOp' = Returned("activate", id, n, "ok")
             /\ UNCHANGED nextId

Rollback(id, target) ==
    LET i == ConfigRepo_GetVersion(versions, id, target)
        found == ConfigRepo_FindByID(configs, id)
        c == [TheDoc(found) EXCEPT !.value = versions[i].value]
        n == ConfigRepo_UpdateBump(c).version
    IN /\ UNCHANGED <<workerVars, secretVars, vaultVars, watchVars, callVars, catalogVars>>
       /\ \/ /\ (i = 0 \/ found = {})
             /\ lastOp' = Returned("rollback", id, target, "not_found")
             /\ UNCHANGED configVars
          \/ /\ i # 0
             /\ found # {}
             /\ n <= MaxVersion
             /\ HasAuditRoom
             /\ configs' = ConfigRepo_Update(configs, c)
             /\ versions' = ConfigRepo_ActivateVersion(
                                ConfigRepo_CreateVersion(
                                    versions,
                                    ConfigVersion_Defaulted(NewVersion(c, n, c.value, FALSE))),
                                id, n)
             /\ auditLog' = ConfigRepo_CreateAuditLog(auditLog, id, "rollback")
             /\ lastOp' = Returned("rollback", id, target, "ok")
             /\ UNCHANGED nextId

Delete(id) ==
    LET found == ConfigRepo_FindByID(configs, id)
    IN /\ UNCHANGED <<workerVars, secretVars, vaultVars, watchVars, callVars, catalogVars>>
       /\ \/ /\ found = {}
             /\ lastOp' = Returned("delete", id, 0, "not_found")
             /\ UNCHANGED configVars
          \/ /\ found # {}
             /\ HasAuditRoom
             /\ configs' = ConfigRepo_Delete(configs, id)
             /\ auditLog' = ConfigRepo_CreateAuditLog(auditLog, id, "delete")
             /\ lastOp' = Returned("delete", id, 0, "ok")
             /\ UNCHANGED <<nextId, versions>>

ConfigIds == 1..MaxConfigs
VersionArgs == 0..MaxVersion

Next ==
    \/ \E t \in Tenants, k \in Keys, e \in EnvInputs, v \in Values : Create(t, k, e, v)
    \/ \E id \in ConfigIds, v \in Values : Update(id, v)
    \/ \E id \in ConfigIds, n \in VersionArgs : ActivateVersion(id, n)
    \/ \E id \in ConfigIds, n \in VersionArgs : Rollback(id, n)
    \/ \E id \in ConfigIds : Delete(id)

Spec == Init /\ [][Next]_vars

\* ------------------------------------------------- properties, config store
VersionsOf(id) == {i \in DOMAIN versions : versions[i].config_id = id}

ActiveOf(id) == {i \in VersionsOf(id) : versions[i].is_active}

RowsOf(vs, id, n) ==
    {i \in DOMAIN vs : vs[i].config_id = id /\ vs[i].version_number = n}

\* C1: after any sequence of whole Create, Update, ActivateVersion and
\* Rollback calls, with any version numbers as arguments, every config that
\* has version rows has exactly one row with is_active = true.
C1_ExactlyOneActive ==
    \A id \in ConfigIds : VersionsOf(id) # {} => Cardinality(ActiveOf(id)) = 1

\* C1 witness: an older version of a config with three versions was activated.
C1_Witness ==
    /\ lastOp = Returned("activate", 1, 1, "ok")
    /\ Cardinality(VersionsOf(1)) = 3
    /\ Cardinality(ActiveOf(1)) = 1

\* C3: once ActivateVersion(config, v) has returned success, the value the
\* config serves is the value stored in version v.
C3_ServedValueIsActivated ==
    (lastOp.op = "activate" /\ lastOp.result = "ok") =>
        \A c \in configs : \A i \in RowsOf(versions, lastOp.id, lastOp.n) :
            c.id = lastOp.id => c.value = versions[i].value

\* C3 witness: Create (v1), Update (v2, another value), ActivateVersion(v1):
\* the config serves v1's value again.
C3_Witness ==
    /\ lastOp = Returned("activate", 1, 1, "ok")
    /\ \E c \in configs : \E i \in RowsOf(versions, 1, 1) : \E j \in RowsOf(versions, 1, 2) :
        /\ c.id = 1
        /\ versions[i].value # versions[j].value
        /\ c.value = versions[i].value

MaxNumber(vs, id) ==
    LET N == {vs[i].version_number : i \in {j \in DOMAIN vs : vs[j].config_id = id}}
    IN IF N = {} THEN 0 ELSE CHOOSE n \in N : \A m \in N : n >= m

C4_Step ==
    /\ Len(versions') >= Len(versions)
    /\ \A i \in DOMAIN versions :
        /\ versions'[i].config_id = versions[i].config_id
        /\ versions'[i].version_number = versions[i].version_number
        /\ versions'[i].value = versions[i].value
    /\ \A i, j \in DOMAIN versions' :
        (i # j /\ versions'[i].config_id = versions'[j].config_id)
            => versions'[i].version_number # versions'[j].version_number
    /\ (lastOp'.op = "rollback" /\ lastOp'.result = "ok") =>
        LET new == versions'[Len(versions')]
        IN /\ Len(versions') = Len(versions) + 1
           /\ new.config_id = lastOp'.id
           /\ new.version_number = MaxNumber(versions, lastOp'.id) + 1
           /\ \A i \in RowsOf(versions, lastOp'.id, lastOp'.n) : new.value = versions[i].value

C5_Step ==
    (/\ lastOp'.op = "activate"
     /\ lastOp'.result = "ok"
     /\ \E i \in RowsOf(versions, lastOp'.id, lastOp'.n) : versions[i].is_active)
    => /\ versions' = versions
       /\ Len(auditLog') <= Len(auditLog) + 1
       /\ SubSeq(auditLog', 1, Len(auditLog)) = auditLog

\* C5: ActivateVersion on the version that is already active leaves every
\* version row as it was and adds at most one audit record.
C5_ReactivationKeepsHistory == [][C5_Step]_vars

\* C5 witness: version 2 was activated, then activated again, while an
\* earlier version of the same config exists.
C5_Witness ==
    /\ lastOp = Returned("activate", 1, 2, "ok")
    /\ Len(auditLog) >= 2
    /\ auditLog[Len(auditLog)] = [resource_id |-> 1, action |-> "activate"]
    /\ auditLog[Len(auditLog) - 1] = [resource_id |-> 1, action |-> "activate"]
    /\ \E i \in RowsOf(versions, 1, 2) : versions[i].is_active

\* C7: a config with version history is never removed from the store: every
\* version row references a config_id that is present in configs.
C7_NoOrphanVersions ==
    \A i \in DOMAIN versions : \E c \in configs : c.id = versions[i].config_id

StatusRank(s) == IF s = "draft" THEN 0 ELSE IF s = "active" THEN 1 ELSE 2

C8_Step ==
    /\ \A i \in DOMAIN versions :
        StatusRank(versions'[i].status) >= StatusRank(versions[i].status)
    /\ \A i \in DOMAIN versions' :
        ~versions'[i].is_active => versions'[i].status # "active"

\* C8: a version's status only moves along draft -> active -> archived, and
\* a version that is not the active one does not have status active.
C8_StatusMachine == [][C8_Step]_vars

\* ------------------------------------------------------------ secret vault
SecretStatuses == {"active", "expired", "rotated"}

RotationPolicies == {"manual", "auto"}

\* Secret.Validate: the error, or "" when the secret is valid.
Secret_Validate(s) ==
    IF s.secret_key = "" THEN "secret_key is required"
    ELSE IF s.environment = "" THEN "environment is required"
    ELSE IF ~IsValidEnvironment(s.environment) THEN "environment must be one of"
    ELSE IF (IF s.status = "" THEN "active" ELSE s.status) \notin SecretStatuses
         THEN "status must be one of"
    ELSE IF s.rotation_policy # "" /\ s.rotation_policy \notin RotationPolicies
         THEN "rotation_policy must be one of"
    ELSE ""

\* Secret.Validate's side effect: an empty status defaults to active.
Secret_Defaulted(s) == [s EXCEPT !.status = IF @ = "" THEN "active" ELSE @]

\* Create: CreatedAt = now, Version = 1, AccessCount = 0, InsertOne.
SecretRepo_Create(secs, id, s, t) ==
    secs \cup {[s EXCEPT !.id = id, !.created_at = t, !.version = 1, !.access_count = 0]}

\* FindByID: the document, or nil (the empty set).
SecretRepo_FindByID(secs, id) == FirstDoc({s \in secs : s.id = id})

\* Update: secret.Version++ and $set of the whole struct on its document.
SecretRepo_Update(secs, s) ==
    IF \E d \in secs : d.id = s.id
    THEN {d \in secs : d.id # s.id} \cup {[s EXCEPT !.version = @ + 1]}
    ELSE secs

\* The rotation check inside the cursor loop: LastRotatedAt != nil and
\* RotationDays > 0 and time.Since(LastRotatedAt).Hours()/24 >= RotationDays.
RotationNeeded(s, t) ==
    /\ s.last_rotated_at # {}
    /\ s.rotation_days > 0
    /\ \A at \in s.last_rotated_at : t - at >= s.rotation_days * TicksPerDay

\* GetSecretsNeedingRotation: Find rotation_policy=auto, status=active, then
\* the rotation check on each document; the ids of the secrets returned.
SecretRepo_GetSecretsNeedingRotation(secs, t) ==
    {s.id : s \in {d \in secs : /\ d.rotation_policy = "auto"
                                /\ d.status = "active"
                                /\ RotationNeeded(d, t)}}

NewSecret(policy, days, status) ==
    [id |-> 0, tenant_id |-> "", secret_key |-> "db_password",
     environment |-> "production", rotation_policy |-> policy,
     rotation_days |-> days, last_rotated_at |-> {}, status |-> status,
     version |-> 0, access_count |-> 0, created_at |-> 0]

SecretCreate(policy, days, status) ==
    LET s == NewSecret(policy, days, status)
    IN /\ UNCHANGED <<vaultVars, watchVars, callVars, catalogVars, configVars, workerVars, now, rotationDue>>
       /\ \/ /\ Secret_Validate(s) # ""
             /\ lastOp' = Returned("secret_create", 0, 0, "validation")
             /\ UNCHANGED <<secrets, nextSecretId>>
          \/ /\ Secret_Validate(s) = ""
             /\ nextSecretId <= MaxSecrets
             /\ secrets' = SecretRepo_Create(secrets, nextSecretId, Secret_Defaulted(s), now)
             /\ nextSecretId' = nextSecretId + 1
             /\ lastOp' = Returned("secret_create", nextSecretId, 0, "ok")

SecretUpdate(id) ==
    LET found == SecretRepo_FindByID(secrets, id)
    IN /\ UNCHANGED <<vaultVars, watchVars, callVars, catalogVars, configVars, workerVars, now, rotationDue, nextSecretId>>
       /\ \/ /\ found = {}
             /\ lastOp' = Returned("secret_update", id, 0, "not_found")
             /\ UNCHANGED secrets
          \/ /\ found # {}
             /\ TheDoc(found).version < MaxSecretVersion
             /\ secrets' = SecretRepo_Update(secrets, TheDoc(found))
             /\ lastOp' = Returned("secret_update", id, 0, "ok")

SecretRotate(id) ==
    LET found == SecretRepo_FindByID(secrets, id)
        s == [TheDoc(found) EXCEPT !.last_rotated_at = {now}, !.status = "active"]
    IN /\ UNCHANGED <<vaultVars, watchVars, callVars, catalogVars, configVars, workerVars, now, rotationDue, nextSecretId>>
       /\ \/ /\ found = {}
             /\ lastOp' = Returned("secret_rotate", id, 0, "not_found")
             /\ UNCHANGED secrets
          \/ /\ found # {}
             /\ s.version < MaxSecretVersion
             /\ secrets' = SecretRepo_Update(secrets, s)
             /\ lastOp' = Returned("secret_rotate", id, 0, "ok")

GetSecretsNeedingRotation ==
    /\ rotationDue' = SecretRepo_GetSecretsNeedingRotation(secrets, now)
    /\ lastOp' = Returned("needing_rotation", 0, 0, "ok")
    /\ UNCHANGED <<vaultVars, watchVars, callVars, catalogVars, configVars, workerVars, secrets, nextSecretId, now>>

\* Time passes.
Tick ==
    /\ now < MaxTime
    /\ now' = now + 1
    /\ lastOp' = Returned("tick", 0, 0, "ok")
    /\ UNCHANGED <<vaultVars, watchVars, callVars, catalogVars, configVars, workerVars, secrets, nextSecretId, rotationDue>>

SecretIds == 1..MaxSecrets
PolicyInputs == {"auto", "manual", "weekly"}
StatusInputs == {"", "expired"}

NextSecret ==
    \/ \E p \in PolicyInputs, d \in 0..MaxRotationDays, st \in StatusInputs :
          SecretCreate(p, d, st)
    \/ \E id \in SecretIds : SecretUpdate(id)
    \/ \E id \in SecretIds : SecretRotate(id)
    \/ GetSecretsNeedingRotation
    \/ Tick

SpecSecret == Init /\ [][NextSecret]_vars

\* ------------------------------------------------- properties, secret vault
\* The instant a secret's rotation period is counted from: its last rotation,
\* or its creation when it was never rotated.
RotationBase(s) ==
    IF s.last_rotated_at = {} THEN s.created_at ELSE CHOOSE at \in s.last_rotated_at : TRUE

DaysElapsedReached(s, t) == t - RotationBase(s) >= s.rotation_days * TicksPerDay

\* C9: GetSecretsNeedingRotation returns exactly the secrets with
\* rotation_policy = auto, status = active and at least rotation_days days
\* elapsed, for every rotation_days (0 included) and every stored secret.
C9_ExactlyTheDueSecrets ==
    lastOp.op = "needing_rotation" =>
        rotationDue = {s.id : s \in {d \in secrets : /\ d.rotation_policy = "auto"
                                                     /\ d.status = "active"
                                                     /\ DaysElapsedReached(d, now)}}

\* C10: a never-rotated secret with rotation_policy = auto and
\* rotation_days = d >= 1 is returned by GetSecretsNeedingRotation exactly
\* when d or more days have elapsed since its creation.
C10_NeverRotatedBecomesDue ==
    lastOp.op = "needing_rotation" =>
        \A s \in secrets :
            (/\ s.rotation_policy = "auto"
             /\ s.status = "active"
             /\ s.rotation_days >= 1
             /\ s.last_rotated_at = {})
            => (s.id \in rotationDue <=> now - s.created_at >= s.rotation_days * TicksPerDay)

\* ------------------------------------ ConfigService, store call by store call
\* Two workers serve requests at the same time.  A service call is a
\* sequence of repository calls; each repository call is one step, and the
\* steps of the two workers interleave freely.
InFlight == {w \in Workers : pc[w] # "idle"}

\* Room in the bounded model for one more call to run to its end.
CanStart(w) ==
    /\ pc[w] = "idle"
    /\ Len(auditLog) + Cardinality(InFlight) < MaxAudit

Return(w, result) ==
    /\ done' = [done EXCEPT ![w] = Returned(req[w].op, req[w].id, req[w].n, result)]
    /\ pc' = [pc EXCEPT ![w] = "idle"]
    /\ req' = [req EXCEPT ![w] = NoReq]

Goto(w, label) == pc' = [pc EXCEPT ![w] = label]

LocalCfg(w) == TheDoc(req[w].cfg)

CreateFind(w, t, k, e, v) ==
    /\ CanStart(w)
    /\ nextId + Cardinality({x \in InFlight : req[x].op = "create"}) <= MaxConfigs
    /\ Config_Validate(NewConfig(t, k, e, v)) = ""
    /\ UNCHANGED <<configVars, secretVars, vaultVars, watchVars, callVars, catalogVars, lastOp>>
    /\ \/ /\ ConfigRepo_FindByKey(configs, t, e, k) # {}
          /\ done' = [done EXCEPT ![w] = Returned("create", 0, 0, "conflict")]
          /\ UNCHANGED <<pc, req>>
       \/ /\ ConfigRepo_FindByKey(configs, t, e, k) = {}
          /\ req' = [req EXCEPT ![w] = [NoReq EXCEPT !.op = "create", !.tenant = t,
                                                     !.key = k, !.env = e, !.value = v,
                                                     !.cfg = {Config_Defaulted(NewConfig(t, k, e, v))}]]
          /\ Goto(w, "c_insert")
          /\ UNCHANGED done

CreateInsert(w) ==
    /\ pc[w] = "c_insert"
    /\ configs' = ConfigRepo_Create(configs, nextId, LocalCfg(w))
    /\ nextId' = nextId + 1
    /\ req' = [req EXCEPT ![w] = [@ EXCEPT !.id = nextId, !.n = 1,
                                           !.cfg = {[LocalCfg(w) EXCEPT !.id = nextId,
                                                                        !.version = 1]}]]
    /\ Goto(w, "c_version")
    /\ UNCHANGED <<versions, auditLog, secretVars, vaultVars, watchVars, callVars, catalogVars, lastOp, done>>

CreateFirstVersion(w) ==
    /\ pc[w] = "c_version"
    /\ versions' = ConfigRepo_CreateVersion(versions, NewVersion(LocalCfg(w), 1, req[w].value, TRUE))
    /\ Goto(w, "audit")
    /\ UNCHANGED <<configs, nextId, auditLog, secretVars, vaultVars, watchVars, callVars, catalogVars, lastOp, req, done>>

UpdateFind(w, id, v) ==
    /\ CanStart(w)
    /\ \A c \in configs : c.id = id => c.version < MaxVersion
    /\ UNCHANGED <<configVars, secretVars, vaultVars, watchVars, callVars, catalogVars, lastOp>>
    /\ \/ /\ ConfigRepo_FindByID(configs, id) = {}
          /\ done' = [done EXCEPT ![w] = Returned("update", 0, 0, "not_found")]
          /\ UNCHANGED <<pc, req>>
       \/ /\ ConfigRepo_FindByID(configs, id) # {}
          /\ req' = [req EXCEPT ![w] =
                        [NoReq EXCEPT !.op = "update", !.id = id, !.value = v,
                                      !.cfg = {[TheDoc(ConfigRepo_FindByID(configs, id))
                                                   EXCEPT !.value = v]}]]
          /\ Goto(w, "u_update")
          /\ UNCHANGED done

UpdateStore(w) ==
    /\ pc[w] = "u_update"
    /\ configs' = ConfigRepo_Update(configs, LocalCfg(w))
    /\ req' = [req EXCEPT ![w] = [@ EXCEPT !.cfg = {ConfigRepo_UpdateBump(LocalCfg(w))},
                                           !.n = ConfigRepo_UpdateBump(LocalCfg(w)).version]]
    /\ Goto(w, "u_version")
    /\ UNCHANGED <<nextId, versions, auditLog, secretVars, vaultVars, watchVars, callVars, catalogVars, lastOp, done>>

UpdateNewVersion(w) ==
    /\ pc[w] = "u_version"
    /\ versions' = ConfigRepo_CreateVersion(
                       versions,
                       ConfigVersion_Defaulted(
                           NewVersion(LocalCfg(w), LocalCfg(w).version, req[w].value, FALSE)))
    /\ Goto(w, "audit")
    /\ UNCHANGED <<configs, nextId, auditLog, secretVars, vaultVars, watchVars, callVars, catalogVars, lastOp, req, done>>

ActivateGet(w, id, n) ==
    /\ CanStart(w)
    /\ UNCHANGED <<configVars, secretVars, vaultVars, watchVars, callVars, catalogVars, lastOp>>
    /\ \/ /\ ConfigRepo_GetVersion(versions, id, n) = 0
          /\ done' = [done EXCEPT ![w] = Returned("activate", 0, 0, "not_found")]
          /\ UNCHANGED <<pc, req>>
       \/ /\ ConfigRepo_GetVersion(versions, id, n) # 0
          /\ req' = [req EXCEPT ![w] =
                        [NoReq EXCEPT !.op = "activate", !.id = id, !.n = n,
                                      !.ver = versions[ConfigRepo_GetVersion(versions, id, n)].value]]
          /\ Goto(w, "a_deactivate")
          /\ UNCHANGED done

ActivateDeactivateAll(w) ==
    /\ pc[w] = "a_deactivate"
    /\ versions' = ConfigRepo_DeactivateAll(versions, req[w].id)
    /\ Goto(w, "a_activate")
    /\ UNCHANGED <<configs, nextId, auditLog, secretVars, vaultVars, watchVars, callVars, catalogVars, lastOp, req, done>>

ActivateOne(w) ==
    /\ pc[w] = "a_activate"
    /\ versions' = ConfigRepo_ActivateOne(versions, req[w].id, req[w].n)
    /\ Goto(w, "a_value")
    /\ UNCHANGED <<configs, nextId, auditLog, secretVars, vaultVars, watchVars, callVars, catalogVars, lastOp, req, done>>

ActivateServe(w) ==
    /\ pc[w] = "a_value"
    /\ configs' = SetServedValue(configs, req[w].id, req[w].ver)
    /\ Goto(w, "audit")
    /\ UNCHANGED <<nextId, versions, auditLog, secretVars, vaultVars, watchVars, callVars, catalogVars, lastOp, req, done>>

WriteAudit(w) ==
    /\ pc[w] = "audit"
    /\ auditLog' = ConfigRepo_CreateAuditLog(auditLog, req[w].id, req[w].op)
    /\ Return(w, "ok")
    /\ UNCHANGED <<configs, nextId, versions, secretVars, vaultVars, watchVars, callVars, catalogVars, lastOp>>

NextConc ==
    \E w \in Workers :
        \/ \E t \in Tenants, k \in Keys, e \in EnvInputs, v \in Values : CreateFind(w, t, k, e, v)
        \/ CreateInsert(w)
        \/ CreateFirstVersion(w)
        \/ \E id \in ConfigIds, v \in Values : UpdateFind(w, id, v)
        \/ UpdateStore(w)
        \/ UpdateNewVersion(w)
        \/ \E id \in ConfigIds, n \in VersionArgs : ActivateGet(w, id, n)
        \/ ActivateDeactivateAll(w)
        \/ ActivateOne(w)
        \/ ActivateServe(w)
        \/ WriteAudit(w)

SpecConc == Init /\ [][NextConc]_vars

\* -------------------------------------- properties, concurrent config store
Settled == InFlight = {}

\* C2: when two callers' ActivateVersion calls on two different existing
\* versions of one config have both returned, in any interleaving of their
\* store writes, the config has exactly one version with is_active = true.
C2_ConcurrentActivation ==
    (/\ Settled
     /\ done[1].op = "activate" /\ done[1].result = "ok"
     /\ done[2].op = "activate" /\ done[2].result = "ok"
     /\ done[1].id = done[2].id
     /\ done[1].n # done[2].n)
    => Cardinality(ActiveOf(done[1].id)) = 1

SameTriple(c, d) ==
    /\ c.tenant_id = d.tenant_id
    /\ c.config_key = d.config_key
    /\ c.environment = d.environment

C6_Step ==
    /\ \A w \in Workers :
        /\ (pc[w] = "idle" /\ pc'[w] = "c_insert")
            => ~\E c \in configs : SameTriple(c, TheDoc(req'[w].cfg))
        /\ (done'[w] # done[w] /\ done'[w].result = "conflict") => UNCHANGED configVars
    /\ \A c, d \in configs' : SameTriple(c, d) => c.id = d.id

\* C6: Create of a (tenant, config_key, environment) that already exists
\* returns a conflict and writes nothing, and the store never holds two
\* configs of one triple, overlapping Creates included.
C6_CreateConflict == [][C6_Step]_vars

\* ---------------------------------------------------------------- Encryptor
\* A stored ciphertext is base64(nonce || sealed bytes); its form tells what
\* Decrypt meets: "sealed" as Encrypt wrote it, "tampered" with a changed
\* byte, "short" cut below the nonce size, "garbage" not base64, "empty".
NoCiphertext == [form |-> "empty", key |-> 0, nonce |-> 0, plain |-> ""]

EncKeys == {1, 2}
Nonces == {1, 2}
VaultNonces == {1}
PlainInputs == {"", "s3cret", "hunter2"}
DamageForms == {"tampered", "short"}

\* Encrypt: empty plaintext is an error; otherwise gcm.Seal under a nonce.
Encryptor_Encrypt(key, plaintext, nonce) ==
    IF plaintext = ""
    THEN [err |-> "plaintext cannot be empty", value |-> NoCiphertext]
    ELSE [err |-> "",
          value |-> [form |-> "sealed", key |-> key, nonce |-> nonce, plain |-> plaintext]]

\* Decrypt: the checks in the order of the code; gcm.Open fails on a changed
\* byte and under any key but the sealing one.
Encryptor_Decrypt(key, ciphertext) ==
    IF ciphertext.form = "empty" THEN [err |-> "ciphertext cannot be empty", value |-> ""]
    ELSE IF ciphertext.form = "garbage" THEN [err |-> "illegal base64 data", value |-> ""]
    ELSE IF ciphertext.form = "short" THEN [err |-> "ciphertext too short", value |-> ""]
    ELSE IF ciphertext.form = "tampered" \/ ciphertext.key # key
         THEN [err |-> "cipher: message authentication failed", value |-> ""]
    ELSE [err |-> "", value |-> ciphertext.plain]

\* ------------------------------------------- SecretRepository, further calls
\* FindByKey: secret_key and environment always filter, tenant_id only when
\* it is not empty; the first match, or nil.
SecretRepo_FindByKey(secs, tenantID, environment, key) ==
    FirstDoc({s \in secs : /\ s.secret_key = key
                           /\ s.environment = environment
                           /\ (tenantID # "" => s.tenant_id = tenantID)})

\* Delete: DeleteOne by _id.
SecretRepo_Delete(secs, id) == {s \in secs : s.id # id}

\* List: the documents the tenant_id and environment filters keep.
SecretRepo_List(secs, tenantID, environment) ==
    {s \in secs : /\ (tenantID # "" => s.tenant_id = tenantID)
                  /\ (environment # "" => s.environment = environment)}

\* IncrementAccessCount: one UpdateOne with $inc access_count and $set
\* last_accessed_at.
SecretRepo_IncrementAccessCount(secs, id, t) ==
    {IF s.id = id THEN [s EXCEPT !.access_count = @ + 1, !.last_accessed_at = {t}] ELSE s
       : s \in secs}

SecretRepo_CreateAccessLog_Upsert(log, secretID, action, success) ==
    LET row == [secret_id |-> secretID, action |-> action, success |-> success]
    IN IF \E i \in 1..Len(log) : log[i].secret_id = secretID
       THEN [i \in 1..Len(log) |-> IF log[i].secret_id = secretID THEN row ELSE log[i]]
       ELSE Append(log, row)

\* CreateAccessLog: InsertOne into secret_access_log.
SecretRepo_CreateAccessLog(log, secretID, action, success) ==
    Append(log, [secret_id |-> secretID, action |-> action, success |-> success])

\* ------------------------------------------------------------ outward views
Secret_JSON_WithValue(s) == s

\* json.Marshal of a Secret: EncryptedValue carries the tag json:"-".
Secret_JSON(s) == [f \in DOMAIN s \ {"encrypted_value"} |-> s[f]]

\* MaskedValue: the placeholder shown in place of a secret's value.
Secret_MaskedValue(s) == "***MASKED***"

ErrorBody(msg) == [error |-> msg]

\* ------------------------------------------------------------ SecretHandler
\* Create: a service error is a 500; otherwise the secret, EncryptedValue
\* cleared, as JSON.
SecretHandler_Create(err, secret) ==
    IF err # "" THEN [status |-> 500, body |-> ErrorBody("Failed to create secret")]
    ELSE [status |-> 201,
          body |-> Secret_JSON([secret EXCEPT !.encrypted_value = NoCiphertext])]

SecretHandler_GetByKey_ShowsError(environment, key, result) ==
    IF environment = "" THEN [status |-> 400, body |-> ErrorBody("environment is required")]
    ELSE IF result.err # "" THEN [status |-> 404, body |-> ErrorBody(result.err)]
    ELSE [status |-> 200, body |-> [key |-> key, value |-> result.value]]

\* GetByKey: environment is required; every service error is the same 404.
SecretHandler_GetByKey(environment, key, result) ==
    IF environment = "" THEN [status |-> 400, body |-> ErrorBody("environment is required")]
    ELSE IF result.err # "" THEN [status |-> 404, body |-> ErrorBody("Secret not found")]
    ELSE [status |-> 200, body |-> [key |-> key, value |-> result.value]]

\* Update, Rotate, Delete: a service error is a 500, success a message.
SecretHandler_Message(err, failed, succeeded) ==
    IF err # "" THEN [status |-> 500, body |-> ErrorBody(failed)]
    ELSE [status |-> 200, body |-> [message |-> succeeded]]

\* List: the secrets as JSON with their count.
SecretHandler_List(listed) ==
    [status |-> 200,
     body |-> [data |-> {Secret_JSON(s) : s \in listed}, total |-> Cardinality(listed)]]

\* ------------------------------------------- SecretService, one call at a time
VaultSecret(t, policy, ver) ==
    [encrypted_value |-> NoCiphertext, last_accessed_at |-> {}]
        @@ [NewSecret(policy, 0, "") EXCEPT !.tenant_id = t, !.version = ver]

HasAccessLogRoom == Len(accessLog) < MaxAccessLog

VaultFrame == UNCHANGED <<configVars, workerVars, watchVars, callVars, catalogVars, now, rotationDue, encKey>>

VaultCreate(t, policy, ver, v, nonce) ==
    LET s == VaultSecret(t, policy, ver)
        enc == Encryptor_Encrypt(encKey, v, nonce)
        id == nextSecretId
        stored == SecretRepo_Create(secrets, id,
                      [Secret_Defaulted(s) EXCEPT !.encrypted_value = enc.value], now)
    IN /\ VaultFrame
       /\ \/ /\ Secret_Validate(s) # ""
             /\ lastOp' = Returned("vault_create", 0, 0, "validation")
             /\ response' = SecretHandler_Create(Secret_Validate(s), s)
             /\ UNCHANGED <<secrets, nextSecretId, accessLog>>
          \/ /\ Secret_Validate(s) = ""
             /\ enc.err # ""
             /\ lastOp' = Returned("vault_create", 0, 0, "encrypt_failed")
             /\ response' = SecretHandler_Create(enc.err, s)
             /\ UNCHANGED <<secrets, nextSecretId, accessLog>>
          \/ /\ Secret_Validate(s) = ""
             /\ enc.err = ""
             /\ id <= MaxSecrets
             /\ HasAccessLogRoom
             /\ secrets' = stored
             /\ nextSecretId' = id + 1
             /\ accessLog' = SecretRepo_CreateAccessLog(accessLog, id, "create", TRUE)
             /\ lastOp' = Returned("vault_create", id, 0, "ok")
             /\ response' = SecretHandler_Create("", TheDoc(SecretRepo_FindByID(stored, id)))

VaultGetByKey(t, environment, key) ==
    LET found == SecretRepo_FindByKey(secrets, t, environment, key)
        s == TheDoc(found)
        dec == Encryptor_Decrypt(encKey, s.encrypted_value)
    IN /\ VaultFrame
       /\ UNCHANGED nextSecretId
       /\ \/ /\ environment = ""
             /\ lastOp' = Returned("vault_get", 0, 0, "bad_request")
             /\ response' = SecretHandler_GetByKey(environment, key, [err |-> "", value |-> ""])
             /\ UNCHANGED <<secrets, accessLog>>
          \/ /\ environment # ""
             /\ found = {}
             /\ lastOp' = Returned("vault_get", 0, 0, "not_found")
             /\ response' = SecretHandler_GetByKey(environment, key,
                                [err |-> "secret not found", value |-> ""])
             /\ UNCHANGED <<secrets, accessLog>>
          \/ /\ environment # ""
             /\ found # {}
             /\ dec.err # ""
             /\ HasAccessLogRoom
             /\ accessLog' = SecretRepo_CreateAccessLog(accessLog, s.id, "read", FALSE)
             /\ lastOp' = Returned("vault_get", s.id, 0, "decrypt_failed")
             /\ response' = SecretHandler_GetByKey(environment, key, dec)
             /\ UNCHANGED secrets
          \/ /\ environment # ""
             /\ found # {}
             /\ dec.err = ""
             /\ HasAccessLogRoom
             /\ secrets' = SecretRepo_IncrementAccessCount(secrets, s.id, now)
             /\ accessLog' = SecretRepo_CreateAccessLog(accessLog, s.id, "read", TRUE)
             /\ lastOp' = Returned("vault_get", s.id, 0, "ok")
             /\ response' = SecretHandler_GetByKey(environment, key, dec)

\* Update and Rotate: FindByID, re-encrypt into the document read, store it
\* whole with repo.Update, log the action.  Rotate also stamps
\* last_rotated_at and leaves the status active.
VaultRewrite(action, id, v, nonce) ==
    LET found == SecretRepo_FindByID(secrets, id)
        enc == Encryptor_Encrypt(encKey, v, nonce)
        s == [TheDoc(found) EXCEPT !.encrypted_value = enc.value]
        r == IF action = "rotate"
             THEN [s EXCEPT !.last_rotated_at = {now}, !.status = "active"]
             ELSE s
        failed == IF action = "rotate" THEN "Failed to rotate secret"
                  ELSE "Failed to update secret"
        succeeded == IF action = "rotate" THEN "Secret rotated successfully"
                     ELSE "Secret updated successfully"
        op == IF action = "rotate" THEN "vault_rotate" ELSE "vault_update"
    IN /\ VaultFrame
       /\ UNCHANGED nextSecretId
       /\ \/ /\ found = {}
             /\ lastOp' = Returned(op, id, 0, "not_found")
             /\ response' = SecretHandler_Message("secret not found", failed, succeeded)
             /\ UNCHANGED <<secrets, accessLog>>
          \/ /\ found # {}
             /\ enc.err # ""
             /\ lastOp' = Returned(op, id, 0, "encrypt_failed")
             /\ response' = SecretHandler_Message(enc.err, failed, succeeded)
             /\ UNCHANGED <<secrets, accessLog>>
          \/ /\ found # {}
             /\ enc.err = ""
             /\ r.version < MaxSecretVersion
             /\ HasAccessLogRoom
             /\ secrets' = SecretRepo_Update(secrets, r)
             /\ accessLog' = SecretRepo_CreateAccessLog(accessLog, id, action, TRUE)
             /\ lastOp' = Returned(op, id, 0, "ok")
             /\ response' = SecretHandler_Message("", failed, succeeded)

VaultUpdate(id, v, nonce) == VaultRewrite("update", id, v, nonce)

VaultRotate(id, v, nonce) == VaultRewrite("rotate", id, v, nonce)

VaultDelete(id) ==
    LET found == SecretRepo_FindByID(secrets, id)
    IN /\ VaultFrame
       /\ UNCHANGED nextSecretId
       /\ \/ /\ found = {}
             /\ lastOp' = Returned("vault_delete", id, 0, "not_found")
             /\ response' = SecretHandler_Message("secret not found",
                                "Failed to delete secret", "Secret deleted successfully")
             /\ UNCHANGED <<secrets, accessLog>>
          \/ /\ found # {}
             /\ HasAccessLogRoom
             /\ secrets' = SecretRepo_Delete(secrets, id)
             /\ accessLog' = SecretRepo_CreateAccessLog(accessLog, id, "delete", TRUE)
             /\ lastOp' = Returned("vault_delete", id, 0, "ok")
             /\ response' = SecretHandler_Message("",
                                "Failed to delete secret", "Secret deleted successfully")

VaultList(t, environment) ==
    /\ VaultFrame
    /\ response' = SecretHandler_List(SecretRepo_List(secrets, t, environment))
    /\ lastOp' = Returned("vault_list", 0, 0, "ok")
    /\ UNCHANGED <<secrets, nextSecretId, accessLog>>

\* The process restarts; without ENCRYPTION_KEY set it runs under a new key.
Restart(k) ==
    /\ k # encKey
    /\ encKey' = k
    /\ UNCHANGED <<configVars, workerVars, watchVars, callVars, catalogVars, secretVars, accessLog, response, lastOp>>

\* The stored ciphertext of a secret is damaged in the store.
StoreDamage(id, form) ==
    /\ \E s \in secrets : s.id = id /\ s.encrypted_value.form = "sealed"
    /\ secrets' = {IF s.id = id THEN [s EXCEPT !.encrypted_value.form = form] ELSE s
                     : s \in secrets}
    /\ UNCHANGED <<configVars, workerVars, watchVars, callVars, catalogVars, vaultVars,
                   nextSecretId, now, rotationDue, lastOp>>

SecretKeyName == "db_password"
VersionInputs == {7}
VaultTenants == {"t1"}
VaultPolicies == {"manual", "weekly"}
GetEnvInputs == {"production", ""}

NextVault ==
    \/ \E t \in VaultTenants, p \in VaultPolicies, ver \in VersionInputs,
          v \in PlainInputs, n \in VaultNonces : VaultCreate(t, p, ver, v, n)
    \/ \E t \in Tenants, e \in GetEnvInputs : VaultGetByKey(t, e, SecretKeyName)
    \/ \E id \in SecretIds, v \in PlainInputs, n \in VaultNonces : VaultUpdate(id, v, n)
    \/ \E id \in SecretIds, v \in PlainInputs, n \in VaultNonces : VaultRotate(id, v, n)
    \/ \E id \in SecretIds : VaultDelete(id)
    \/ \E t \in Tenants, e \in GetEnvInputs : VaultList(t, e)
    \/ \E k \in EncKeys : Restart(k)
    \/ \E id \in SecretIds, f \in DamageForms : StoreDamage(id, f)

SpecVault == Init /\ [][NextVault]_vars

\* ------------------------------------------------ properties, secret views
\* What GetByKey answers for a secret that does not exist.
MissingSecretResponse ==
    SecretHandler_GetByKey("production", SecretKeyName,
                           [err |-> "secret not found", value |-> ""])

\* C13: the GetByKey response for a secret whose stored ciphertext fails
\* decryption (wrong key, truncated or tampered) is the response for a
\* secret that does not exist.
C13_DecryptFailureLooksMissing ==
    (lastOp.op = "vault_get" /\ lastOp.result \in {"not_found", "decrypt_failed"})
        => response = MissingSecretResponse

C13_Witness ==
    /\ lastOp.op = "vault_get"
    /\ lastOp.result = "decrypt_failed"
    /\ \E s \in secrets : /\ s.id = lastOp.id
                          /\ s.encrypted_value.form = "sealed"
                          /\ s.encrypted_value.key # encKey

\* The secret with its value blanked out.
Blank(s) == [s EXCEPT !.encrypted_value = NoCiphertext]

\* C14: the responses of Create and List are those of the store with every
\* secret's value blanked out, encrypted_value is no field of them, and
\* MaskedValue is one placeholder for every secret.
C14_ViewsIgnoreValue ==
    /\ lastOp.op = "vault_list" =>
          /\ \E t \in Tenants, e \in GetEnvInputs :
                response = SecretHandler_List({Blank(s) : s \in SecretRepo_List(secrets, t, e)})
          /\ \A d \in response.body.data : "encrypted_value" \notin DOMAIN d
    /\ (lastOp.op = "vault_create" /\ lastOp.result = "ok") =>
          /\ "encrypted_value" \notin DOMAIN response.body
          /\ \A s \in secrets : s.id = lastOp.id => response.body = Secret_JSON(Blank(s))
    /\ \A s \in secrets : Secret_MaskedValue(s) = "***MASKED***"

C14_Witness ==
    /\ lastOp.op = "vault_list"
    /\ response.body.total = 2
    /\ \E s, r \in secrets : s.encrypted_value.plain # r.encrypted_value.plain

\* ------------------------------------ SecretService, store call by store call
\* Two workers serve secret requests at the same time; each repository call
\* is one step.
CanStartVault(w) ==
    /\ pc[w] = "idle"
    /\ Len(accessLog) + Cardinality(InFlight) < MaxVaultCalls

VaultConcFrame ==
    UNCHANGED <<configVars, watchVars, callVars, catalogVars, now, rotationDue, encKey, response, lastOp>>

\* Create: Validate, Encrypt, repo.Create.
VaultCreateInsert(w, ver, v) ==
    LET s == VaultSecret("t1", "manual", ver)
        enc == Encryptor_Encrypt(encKey, v, 1)
    IN /\ CanStartVault(w)
       /\ Secret_Validate(s) = ""
       /\ enc.err = ""
       /\ nextSecretId <= MaxSecrets
       /\ secrets' = SecretRepo_Create(secrets, nextSecretId,
                        [Secret_Defaulted(s) EXCEPT !.encrypted_value = enc.value], now)
       /\ nextSecretId' = nextSecretId + 1
       /\ req' = [req EXCEPT ![w] = [NoReq EXCEPT !.op = "create", !.id = nextSecretId]]
       /\ Goto(w, "v_log")
       /\ VaultConcFrame
       /\ UNCHANGED <<accessLog, done>>

\* GetByKey: repo.FindByKey, Decrypt.
VaultGetFind(w, t) ==
    LET found == SecretRepo_FindByKey(secrets, t, "production", SecretKeyName)
        s == TheDoc(found)
        dec == Encryptor_Decrypt(encKey, s.encrypted_value)
    IN /\ CanStartVault(w)
       /\ VaultConcFrame
       /\ UNCHANGED <<secrets, nextSecretId, accessLog>>
       /\ \/ /\ found = {}
             /\ done' = [done EXCEPT ![w] = Returned("read", 0, 0, "not_found")]
             /\ UNCHANGED <<pc, req>>
          \/ /\ found # {}
             /\ dec.err # ""
             /\ done' = [done EXCEPT ![w] = Returned("read", s.id, 0, "decrypt_failed")]
             /\ UNCHANGED <<pc, req>>
          \/ /\ found # {}
             /\ dec.err = ""
             /\ req' = [req EXCEPT ![w] = [NoReq EXCEPT !.op = "read", !.id = s.id]]
             /\ Goto(w, "g_inc")
             /\ UNCHANGED done

\* GetByKey: repo.IncrementAccessCount.
VaultGetIncrement(w) ==
    /\ pc[w] = "g_inc"
    /\ secrets' = SecretRepo_IncrementAccessCount(secrets, req[w].id, now)
    /\ Goto(w, "v_log")
    /\ VaultConcFrame
    /\ UNCHANGED <<nextSecretId, accessLog, req, done>>

\* Update and Rotate: repo.FindByID, Encrypt into the document read.
VaultRewriteFind(w, action, id, v) ==
    LET found == SecretRepo_FindByID(secrets, id)
        enc == Encryptor_Encrypt(encKey, v, 1)
        s == [TheDoc(found) EXCEPT !.encrypted_value = enc.value]
        r == IF action = "rotate"
             THEN [s EXCEPT !.last_rotated_at = {now}, !.status = "active"]
             ELSE s
    IN /\ CanStartVault(w)
       /\ enc.err = ""
       /\ VaultConcFrame
       /\ UNCHANGED <<secrets, nextSecretId, accessLog>>
       /\ \/ /\ found = {}
             /\ done' = [done EXCEPT ![w] = Returned(action, id, 0, "not_found")]
             /\ UNCHANGED <<pc, req>>
          \/ /\ found # {}
             /\ req' = [req EXCEPT ![w] = [NoReq EXCEPT !.op = action, !.id = id, !.cfg = {r}]]
             /\ Goto(w, "u_store")
             /\ UNCHANGED done

\* Update and Rotate: repo.Update of the document held.
VaultRewriteStore(w) ==
    /\ pc[w] = "u_store"
    /\ secrets' = SecretRepo_Update(secrets, LocalCfg(w))
    /\ Goto(w, "v_log")
    /\ VaultConcFrame
    /\ UNCHANGED <<nextSecretId, accessLog, req, done>>

\* Every call ends with repo.CreateAccessLog and returns.
VaultWriteLog(w) ==
    /\ pc[w] = "v_log"
    /\ accessLog' = SecretRepo_CreateAccessLog(accessLog, req[w].id, req[w].op, TRUE)
    /\ Return(w, "ok")
    /\ VaultConcFrame
    /\ UNCHANGED <<secrets, nextSecretId>>

RewriteActions == {"update", "rotate"}

NextVaultConc ==
    \E w \in Workers :
        \/ \E ver \in VersionInputs, v \in PlainInputs : VaultCreateInsert(w, ver, v)
        \/ \E t \in Tenants : VaultGetFind(w, t)
        \/ VaultGetIncrement(w)
        \/ \E a \in RewriteActions, id \in SecretIds, v \in PlainInputs :
              VaultRewriteFind(w, a, id, v)
        \/ VaultRewriteStore(w)
        \/ VaultWriteLog(w)

SpecVaultConc == Init /\ [][NextVaultConc]_vars

\* ------------------------------------------- properties, concurrent vault
\* Calls on a secret that ran to their end, by the action they logged.
Logged(id, actions) ==
    Cardinality({i \in 1..Len(accessLog) : /\ accessLog[i].secret_id = id
                                           /\ accessLog[i].action \in actions
                                           /\ accessLog[i].success})

\* C11: access_count never decreases, and when every call has returned it
\* equals the number of GetByKey calls on the secret that succeeded.
C11_Step ==
    /\ \A s \in secrets : \A r \in secrets' :
          s.id = r.id => r.access_count >= s.access_count
    /\ Settled' => \A r \in secrets' : r.access_count = Logged(r.id, {"read"})'

C11_AccessCountExact == [][C11_Step]_vars

\* C12: a secret's version is 1 after Create whatever version the caller
\* supplied, and when every call has returned it is 1 plus the number of
\* Update and Rotate calls on it that succeeded; GetByKey leaves it alone.
C12_VersionCountsRewrites ==
    Settled => \A s \in secrets : s.version = 1 + Logged(s.id, RewriteActions)

\* -------------------------------------------------------- the audit trail
\* Config and secret calls together, one at a time: every mutating call of
\* ConfigService and SecretService, each writing its row.
TrailRoom == Len(auditLog) + Len(accessLog) < MaxTrail

TrailValue == "s3cret"

NextTrail ==
    \/ \E v \in Values : TrailRoom /\ Create("", "api.rate_limit", "production", v)
    \/ \E id \in ConfigIds, v \in Values : TrailRoom /\ Update(id, v)
    \/ \E id \in ConfigIds, n \in VersionArgs : TrailRoom /\ ActivateVersion(id, n)
    \/ \E id \in ConfigIds, n \in VersionArgs : TrailRoom /\ Rollback(id, n)
    \/ \E id \in ConfigIds : TrailRoom /\ Delete(id)
    \/ \E ver \in VersionInputs : TrailRoom /\ VaultCreate("t1", "manual", ver, TrailValue, 1)
    \/ TrailRoom /\ VaultGetByKey("t1", "production", SecretKeyName)
    \/ \E id \in SecretIds : TrailRoom /\ VaultUpdate(id, TrailValue, 1)
    \/ \E id \in SecretIds : TrailRoom /\ VaultRotate(id, TrailValue, 1)
    \/ \E id \in SecretIds : TrailRoom /\ VaultDelete(id)

SpecTrail == Init /\ [][NextTrail]_vars

IsPrefix(s, t) == Len(s) <= Len(t) /\ \A i \in 1..Len(s) : s[i] = t[i]

\* C15: no operation modifies or removes a row of config_audit_log or of
\* secret_access_log: each log after a step extends the log before it.
C15_Step == IsPrefix(auditLog, auditLog') /\ IsPrefix(accessLog, accessLog')

C15_AuditTrailAppendOnly == [][C15_Step]_vars

C15_Witness ==
    /\ lastOp.op = "vault_delete" /\ lastOp.result = "ok"
    /\ \E i \in 1..Len(accessLog) : /\ accessLog[i].secret_id = lastOp.id
                                    /\ accessLog[i].action = "create"
    /\ \E i \in 1..Len(auditLog) : auditLog[i].action = "create"

\* ----------------------------------------------- WatchService: the matcher
\* Keys and patterns are strings, here sequences of characters.
\* Split: the dot-separated segments, as strings.Split gives them.
RECURSIVE Split(_)
Split(s) ==
    IF \A i \in 1..Len(s) : s[i] # "." THEN <<s>>
    ELSE LET i == CHOOSE i \in 1..Len(s) : s[i] = "." /\ \A j \in 1..(i - 1) : s[j] # "."
         IN <<SubSeq(s, 1, i - 1)>> \o Split(SubSeq(s, i + 1, Len(s)))

Star == <<"*">>
DoubleStar == <<"*", "*">>

RECURSIVE MatchSegments_Glob(_, _)
MatchSegments_Glob(ps, ks) ==
    IF ps = <<>> THEN ks = <<>>
    ELSE IF Head(ps) = DoubleStar /\ Len(ps) = 1 THEN TRUE
    ELSE IF ks = <<>> THEN FALSE
    ELSE IF Head(ps) = Star /\ Len(ps) = 1 THEN TRUE
    ELSE IF Head(ps) = Star \/ Head(ps) = Head(ks)
         THEN MatchSegments_Glob(Tail(ps), Tail(ks))
    ELSE FALSE

\* The matcher walks pattern and key segment by segment: a final "**" takes
\* whatever remains, "*" takes one segment, anything else must be equal.
RECURSIVE MatchSegments(_, _)
MatchSegments(ps, ks) ==
    IF ps = <<>> THEN ks = <<>>
    ELSE IF Head(ps) = DoubleStar /\ Len(ps) = 1 THEN TRUE
    ELSE IF ks = <<>> THEN FALSE
    ELSE IF Head(ps) = Star \/ Head(ps) = Head(ks)
         THEN MatchSegments(Tail(ps), Tail(ks))
    ELSE FALSE

MatchPattern(pattern, key) == MatchSegments(Split(pattern), Split(key))

SeqsUpTo(A, n) == UNION {[1..m -> A] : m \in 0..n}

KeyInputs == SeqsUpTo({"a", "b", "."}, MaxKeyLen)
PatternInputs == SeqsUpTo({"a", "*", "."}, MaxPatternLen)

\* The matcher is handed one pattern and one key.
InitMatch ==
    /\ InitStores
    /\ matchIn \in [pattern : PatternInputs, key : KeyInputs]
    /\ matchOut = FALSE
    /\ callIn = NoCall
    /\ callOut = NoCall

Match ==
    /\ lastOp.op # "match"
    /\ matchOut' = MatchPattern(matchIn.pattern, matchIn.key)
    /\ lastOp' = Returned("match", 0, 0, "ok")
    /\ UNCHANGED <<configVars, workerVars, secretVars, vaultVars,
                   subs, nextSubId, event, attempts, failedSince, matchIn,
                   callVars, catalogVars>>

NextMatch == Match

SpecMatch == InitMatch /\ [][NextMatch]_vars

\* --------------------------------------------------- properties, matcher
WithoutDoubleStar(ps) == \A i \in 1..Len(ps) : ps[i] # DoubleStar

EndsInDoubleStar(ps) ==
    /\ ps[Len(ps)] = DoubleStar
    /\ \A i \in 1..(Len(ps) - 1) : ps[i] # DoubleStar

SegmentFits(p, k) == p = Star \/ p = k

\* The keys and patterns of the examples, character by character.
K_db_timeout == <<"d", "b", ".", "t", "i", "m", "e", "o", "u", "t">>
K_db_timeout_extra == K_db_timeout \o <<".", "e", "x", "t", "r", "a">>
K_dbx_timeout == <<"d", "b", "x", ".", "t", "i", "m", "e", "o", "u", "t">>
K_api_users_timeout ==
    <<"a", "p", "i", ".", "u", "s", "e", "r", "s", ".", "t", "i", "m", "e", "o", "u", "t">>
K_api_timeout == <<"a", "p", "i", ".", "t", "i", "m", "e", "o", "u", "t">>
P_db_star == <<"d", "b", ".", "*">>
P_api_star_timeout == <<"a", "p", "i", ".", "*", ".", "t", "i", "m", "e", "o", "u", "t">>

FailureThreshold == 2

\* Failures are recorded up to this count (one past the threshold, so that a
\* reactivated subscription can fail again).
MaxFailureCount == FailureThreshold + 1

SubscriptionStatuses == {"active", "paused", "inactive"}

CallbackURL == "https://svc/hook"

\* WatchSubscription.Validate: subscriber_id, callback_url and at least one
\* pattern are required; the status, once defaulted, is one of three.
WatchSubscription_Validate(w) ==
    IF w.subscriber_id = "" THEN "subscriber_id is required"
    ELSE IF w.callback_url = "" THEN "callback_url is required"
    ELSE IF w.patterns = {} THEN "at least one pattern is required"
    ELSE IF (IF w.status = "" THEN "active" ELSE w.status) \notin SubscriptionStatuses
         THEN "status must be one of"
    ELSE ""

\* WatchSubscription.Validate's side effect: an empty status defaults to active.
WatchSubscription_Defaulted(w) == [w EXCEPT !.status = IF @ = "" THEN "active" ELSE @]

WatchRepo_Create_KeepsCount(ss, id, w) ==
    ss \cup {[w EXCEPT !.id = id]}

\* Create: FailureCount = 0, InsertOne.
WatchRepo_Create(ss, id, w) ==
    ss \cup {[w EXCEPT !.id = id, !.failure_count = 0]}

\* FindByID: the document, or nil (the empty set).
WatchRepo_FindByID(ss, id) == FirstDoc({s \in ss : s.id = id})

\* Update: $set of the whole struct on its document.
WatchRepo_Update(ss, w) ==
    {IF d.id = w.id THEN w ELSE d : d \in ss}

WatchRepo_GetActiveSubscriptions_All(ss) == ss

\* GetActiveSubscriptions: Find with the filter status = "active".
WatchRepo_GetActiveSubscriptions(ss) == {s \in ss : s.status = "active"}

\* IncrementFailureCount: $inc failure_count by 1 on the document.
WatchRepo_IncrementFailureCount(ss, id) ==
    {IF d.id = id THEN [d EXCEPT !.failure_count = @ + 1] ELSE d : d \in ss}

WatchRepo_ResetFailureCount_KeepsCount(ss, id, t) ==
    {IF d.id = id THEN [d EXCEPT !.last_notified = {t}] ELSE d : d \in ss}

\* ResetFailureCount: $set failure_count = 0 and last_notified = now.
WatchRepo_ResetFailureCount(ss, id, t) ==
    {IF d.id = id THEN [d EXCEPT !.failure_count = 0, !.last_notified = {t}] ELSE d : d \in ss}

SubscriptionMatches_AnyEnvironment(s, ev) ==
    /\ \E p \in s.patterns : MatchPattern(p, ev.key)
    /\ s.tenant_id = "" \/ s.tenant_id = ev.tenant_id

\* A subscription matches an event: one of its patterns matches the key, the
\* event's environment is watched (no list: all are), and the tenant filter is
\* empty or the event's tenant.
SubscriptionMatches(s, ev) ==
    /\ \E p \in s.patterns : MatchPattern(p, ev.key)
    /\ s.environments = {} \/ ev.environment \in s.environments
    /\ s.tenant_id = "" \/ s.tenant_id = ev.tenant_id

\* The subscriptions an event is delivered to: the active ones that match.
MatchingSubscriptions(ss, ev) ==
    {s \in WatchRepo_GetActiveSubscriptions(ss) : SubscriptionMatches(s, ev)}

RecordFailure_AtThresholdOnly(ss, id) ==
    LET counted == WatchRepo_IncrementFailureCount(ss, id)
        found == WatchRepo_FindByID(counted, id)
    IN IF found # {} /\ TheDoc(found).failure_count = FailureThreshold
       THEN WatchRepo_Update(counted, [TheDoc(found) EXCEPT !.status = "paused"])
       ELSE counted

\* A failed delivery: count it, and pause the subscription at the threshold.
RecordFailure(ss, id) ==
    LET counted == WatchRepo_IncrementFailureCount(ss, id)
        found == WatchRepo_FindByID(counted, id)
    IN IF found # {} /\ TheDoc(found).failure_count >= FailureThreshold
       THEN WatchRepo_Update(counted, [TheDoc(found) EXCEPT !.status = "paused"])
       ELSE counted

Least(ids) == CHOOSE i \in ids : \A j \in ids : i <= j

\* The bookkeeping of one dispatch, one subscriber after the other.
RECURSIVE Bookkeeping(_, _, _, _)
Bookkeeping(ss, ids, failing, t) ==
    IF ids = {} THEN ss
    ELSE LET id == Least(ids)
             booked == IF id \in failing THEN RecordFailure(ss, id)
                       ELSE WatchRepo_ResetFailureCount(ss, id, t)
         IN Bookkeeping(booked, ids \ {id}, failing, t)

\* ------------------------------------------------------------- WatchService
WatchFrame ==
    UNCHANGED <<configVars, workerVars, secretVars, vaultVars, matchIn, matchOut,
                callVars, catalogVars>>

\* The subscriptions callers register: one on db.* in production for every
\* tenant, one on everything for tenant t1, and one with no pattern.
SubscriptionInputs ==
    {[tenant_id |-> "", patterns |-> {P_db_star}, environments |-> {"production"}],
     [tenant_id |-> "t1", patterns |-> {P_api_star_timeout, DoubleStar}, environments |-> {}],
     [tenant_id |-> "", patterns |-> {}, environments |-> {}]}

NewSubscription(input) ==
    [id |-> 0, subscriber_id |-> "svc", callback_url |-> CallbackURL,
     tenant_id |-> input.tenant_id, patterns |-> input.patterns,
     environments |-> input.environments, status |-> "",
     last_notified |-> {}, failure_count |-> 0]

\* The changes that are dispatched: db.timeout in production and in staging,
\* and api.timeout in production for tenant t1 and for no tenant.
EventInputs ==
    {[key |-> K_db_timeout, tenant_id |-> "", environment |-> "production"],
     [key |-> K_db_timeout, tenant_id |-> "t1", environment |-> "staging"],
     [key |-> K_api_timeout, tenant_id |-> "t1", environment |-> "production"],
     [key |-> K_api_timeout, tenant_id |-> "", environment |-> "production"]}

\* The change an operator triggers by hand.
TriggerInputs ==
    {[key |-> K_db_timeout, tenant_id |-> "t1", environment |-> "production"]}

\* A call that delivers nothing leaves no event and no attempt behind.
NothingDelivered ==
    /\ event' = NoEvent
    /\ attempts' = {}
    /\ UNCHANGED failedSince

\* Subscribe: validate, then store with failure_count = 0.
Subscribe(input) ==
    LET w == NewSubscription(input)
        err == WatchSubscription_Validate(w)
    IN /\ nextSubId <= MaxSubs
       /\ WatchFrame
       /\ NothingDelivered
       /\ IF err # ""
          THEN /\ lastOp' = Returned("subscribe", 0, 0, "validation")
               /\ UNCHANGED <<subs, nextSubId>>
          ELSE /\ subs' = WatchRepo_Create(subs, nextSubId, WatchSubscription_Defaulted(w))
               /\ nextSubId' = nextSubId + 1
               /\ lastOp' = Returned("subscribe", nextSubId, 0, "ok")

\* One change delivered: every active matching subscription is attempted, and
\* each attempt's outcome is booked; the subscribers in failing do not answer.
Deliver(op, ev) ==
    LET selected == {s.id : s \in MatchingSubscriptions(subs, ev)}
    IN \E failing \in SUBSET selected :
       /\ \A s \in subs : s.id \in failing => s.failure_count < MaxFailureCount
       /\ WatchFrame
       /\ event' = ev
       /\ attempts' = selected
       /\ subs' = Bookkeeping(subs, selected, failing, now)
       /\ failedSince' = [i \in SubIds |->
                            IF i \in failing THEN failedSince[i] + 1
                            ELSE IF i \in selected THEN 0
                            ELSE failedSince[i]]
       /\ lastOp' = Returned(op, 0, Cardinality(selected), "ok")
       /\ UNCHANGED nextSubId

\* Dispatch: the delivery that follows a configuration write.
Dispatch(ev) == Deliver("dispatch", ev)

\* TriggerNotification: the same delivery, asked for by hand.
TriggerNotification(ev) == Deliver("trigger", ev)

DispatchOps == {"dispatch", "trigger"}

\* UpdateSubscription with a status: the stored subscription with the new
\* status is written back; nothing else of it is touched, failure_count
\* included.
UpdateSubscription(id, status) ==
    LET found == WatchRepo_FindByID(subs, id)
    IN /\ WatchFrame
       /\ NothingDelivered
       /\ UNCHANGED nextSubId
       /\ IF found = {}
          THEN /\ lastOp' = Returned("sub_update", id, 0, "not_found")
               /\ UNCHANGED subs
          ELSE /\ subs' = WatchRepo_Update(subs, [TheDoc(found) EXCEPT !.status = status])
               /\ lastOp' = Returned("sub_update", id, 0, "ok")

\* The explicit update callers make: reactivation.
UpdateStatuses == {"active"}

NextWatch ==
    \/ \E input \in SubscriptionInputs : Subscribe(input)
    \/ \E ev \in EventInputs : Dispatch(ev)
    \/ \E ev \in TriggerInputs : TriggerNotification(ev)
    \/ \E id \in SubIds, status \in UpdateStatuses : UpdateSubscription(id, status)

SpecWatch == Init /\ [][NextWatch]_vars

\* ----------------------------------------------------- properties, dispatch
Delivered == lastOp.op \in DispatchOps

SubOf(ss, id) == TheDoc({s \in ss : s.id = id})

\* C17: a delivery selects a subscription exactly when one of its patterns
\* matches the key, its environment list is empty or holds the event's
\* environment, and its tenant filter is empty or the event's tenant; the
\* subscriptions a delivery selects from are the active ones.
C17_Step ==
    lastOp'.op \in DispatchOps =>
        \A s \in subs :
            s.id \in attempts' <=>
                /\ s.status = "active"
                /\ \E p \in s.patterns : MatchPattern(p, event'.key)
                /\ s.environments = {} \/ event'.environment \in s.environments
                /\ s.tenant_id = "" \/ s.tenant_id = event'.tenant_id

C18_Step ==
    \A s \in subs :
        s.status = "paused" =>
            /\ lastOp'.op \in DispatchOps => s.id \notin attempts' /\ s \in subs'
            /\ \A d \in subs' :
                   d.id = s.id /\ d.status # "paused" =>
                       lastOp'.op = "sub_update" /\ lastOp'.id = s.id

C18_PausedIsSkipped == [][C18_Step]_vars

\* A subscription paused at the threshold that the delivered event matches,
\* and that was not attempted.
C18_Witness ==
    /\ Delivered
    /\ \E s \in subs :
        /\ s.status = "paused"
        /\ s.failure_count >= FailureThreshold
        /\ SubscriptionMatches(s, event)
        /\ s.id \notin attempts

C20_Step ==
    /\ \A d \in subs' : d.failure_count = failedSince'[d.id]
    /\ lastOp'.op \in DispatchOps =>
        \A s \in subs :
            s.id \in attempts' =>
                IF failedSince'[s.id] = 0
                THEN SubOf(subs', s.id) =
                         [s EXCEPT !.failure_count = 0, !.last_notified = {now}]
                ELSE /\ failedSince'[s.id] = failedSince[s.id] + 1
                     /\ SubOf(subs', s.id).failure_count = s.failure_count + 1

WatchConcFrame ==
    UNCHANGED <<configVars, secretVars, vaultVars, lastOp, event, attempts, matchIn, matchOut,
                callVars, catalogVars>>

\* Subscribe: Validate, repo.Create.
WatchSubscribeInsert(w, input) ==
    LET sub == NewSubscription(input)
    IN /\ pc[w] = "idle"
       /\ nextSubId <= MaxSubs
       /\ WatchSubscription_Validate(sub) = ""
       /\ subs' = WatchRepo_Create(subs, nextSubId, WatchSubscription_Defaulted(sub))
       /\ nextSubId' = nextSubId + 1
       /\ done' = [done EXCEPT ![w] = Returned("subscribe", nextSubId, 0, "ok")]
       /\ WatchConcFrame
       /\ UNCHANGED <<pc, req, failedSince>>

\* A delivery to one of the active subscriptions is attempted.
WatchDeliverAttempt(w, id) ==
    /\ pc[w] = "idle"
    /\ \E s \in WatchRepo_GetActiveSubscriptions(subs) : s.id = id
    /\ failedSince[id] + Cardinality({x \in InFlight : req[x].op = "deliver" /\ req[x].id = id
                                                        /\ pc[x] = "d_inc"})
          < MaxFailureCount
    /\ req' = [req EXCEPT ![w] = [NoReq EXCEPT !.op = "deliver", !.id = id]]
    /\ Goto(w, "d_inc")
    /\ WatchConcFrame
    /\ UNCHANGED <<subs, nextSubId, failedSince, done>>

\* The attempt failed: repo.IncrementFailureCount.
WatchDeliverIncrement(w) ==
    /\ pc[w] = "d_inc"
    /\ subs' = WatchRepo_IncrementFailureCount(subs, req[w].id)
    /\ failedSince' = [failedSince EXCEPT ![req[w].id] = @ + 1]
    /\ Goto(w, "d_find")
    /\ WatchConcFrame
    /\ UNCHANGED <<nextSubId, req, done>>

\* The threshold check: repo.FindByID of the subscription just counted.
WatchDeliverFind(w) ==
    LET found == WatchRepo_FindByID(subs, req[w].id)
    IN /\ pc[w] = "d_find"
       /\ WatchConcFrame
       /\ UNCHANGED <<subs, nextSubId, failedSince>>
       /\ IF found # {} /\ TheDoc(found).failure_count >= FailureThreshold
          THEN /\ req' = [req EXCEPT ![w].cfg = {[TheDoc(found) EXCEPT !.status = "paused"]}]
               /\ Goto(w, "d_pause")
               /\ UNCHANGED done
          ELSE Return(w, "ok")

\* The pause: repo.Update of the subscription held.
WatchDeliverPause(w) ==
    /\ pc[w] = "d_pause"
    /\ subs' = WatchRepo_Update(subs, LocalCfg(w))
    /\ Return(w, "paused")
    /\ WatchConcFrame
    /\ UNCHANGED <<nextSubId, failedSince>>

\* UpdateSubscription: repo.FindByID, the new status set on the copy read.
WatchUpdateFind(w, id, status) ==
    LET found == WatchRepo_FindByID(subs, id)
    IN /\ pc[w] = "idle"
       /\ WatchConcFrame
       /\ UNCHANGED <<subs, nextSubId, failedSince>>
       /\ IF found = {}
          THEN /\ done' = [done EXCEPT ![w] = Returned("sub_update", id, 0, "not_found")]
               /\ UNCHANGED <<pc, req>>
          ELSE /\ req' = [req EXCEPT ![w] = [NoReq EXCEPT !.op = "sub_update", !.id = id,
                                                !.cfg = {[TheDoc(found) EXCEPT !.status = status]}]]
               /\ Goto(w, "s_store")
               /\ UNCHANGED done

\* UpdateSubscription: repo.Update of the copy held.
WatchUpdateStore(w) ==
    /\ pc[w] = "s_store"
    /\ subs' = WatchRepo_Update(subs, LocalCfg(w))
    /\ Return(w, "ok")
    /\ WatchConcFrame
    /\ UNCHANGED <<nextSubId, failedSince>>

ConcSubscriptionInputs == {s \in SubscriptionInputs : s.patterns = {P_db_star}}

NextWatchConc ==
    \E w \in Workers :
        \/ \E input \in ConcSubscriptionInputs : WatchSubscribeInsert(w, input)
        \/ \E id \in SubIds : WatchDeliverAttempt(w, id)
        \/ WatchDeliverIncrement(w)
        \/ WatchDeliverFind(w)
        \/ WatchDeliverPause(w)
        \/ \E id \in SubIds, status \in UpdateStatuses : WatchUpdateFind(w, id, status)
        \/ WatchUpdateStore(w)

SpecWatchConc == Init /\ [][NextWatchConc]_vars

\* C21: once every call has returned, each subscription's failure_count is
\* the number of failures recorded for it (no delivery succeeds here), in
\* every interleaving of failure bookkeeping and subscription updates.
C21_NoLostUpdate ==
    Settled => \A s \in subs : s.failure_count = failedSince[s.id]

\* ------------------------------------------- a config write and its dispatch
K_api_rate_limit ==
    <<"a", "p", "i", ".", "r", "a", "t", "e", "_", "l", "i", "m", "i", "t">>

\* A config key as the characters the matcher walks.
KeyChars(k) == IF k = "api.rate_limit" THEN K_api_rate_limit ELSE <<>>

\* The writes of the config store that are followed by a dispatch.
NotifiedOps == {"create", "update"}

\* The change descriptor of a config.
ChangeOf(c) ==
    [key |-> KeyChars(c.config_key), tenant_id |-> c.tenant_id, environment |-> c.environment]

DispatchChange_FailsTheWrite ==
    LET c == TheDoc(ConfigRepo_FindByID(configs, lastOp.id))
        ev == ChangeOf(c)
        selected == {s.id : s \in MatchingSubscriptions(subs, ev)}
    IN /\ lastOp.op \in NotifiedOps /\ lastOp.result = "ok"
       /\ \E failing \in SUBSET selected :
           /\ \A s \in subs : s.id \in failing => s.failure_count < MaxFailureCount
           /\ event' = ev
           /\ attempts' = selected
           /\ subs' = Bookkeeping(subs, selected, failing, now)
           /\ failedSince' = [i \in SubIds |->
                                IF i \in failing THEN failedSince[i] + 1
                                ELSE IF i \in selected THEN 0
                                ELSE failedSince[i]]
           /\ lastOp' = IF failing = {} THEN lastOp
                        ELSE [lastOp EXCEPT !.result = "dispatch_failed"]
       /\ WatchFrame
       /\ UNCHANGED nextSubId

\* The dispatch that follows a write that was persisted and audited: the
\* change is delivered to the matching active subscriptions and each outcome
\* is booked; the write and its result stand.
DispatchChange ==
    LET c == TheDoc(ConfigRepo_FindByID(configs, lastOp.id))
        ev == ChangeOf(c)
        selected == {s.id : s \in MatchingSubscriptions(subs, ev)}
    IN /\ lastOp.op \in NotifiedOps /\ lastOp.result = "ok"
       /\ \E failing \in SUBSET selected :
           /\ \A s \in subs : s.id \in failing => s.failure_count < MaxFailureCount
           /\ event' = ev
           /\ attempts' = selected
           /\ subs' = Bookkeeping(subs, selected, failing, now)
           /\ failedSince' = [i \in SubIds |->
                                IF i \in failing THEN failedSince[i] + 1
                                ELSE IF i \in selected THEN 0
                                ELSE failedSince[i]]
       /\ WatchFrame
       /\ UNCHANGED <<lastOp, nextSubId>>

\* Subscribers of every change of tenant t1, and of db.* in production.
NotifiedSubscriptionInputs == {s \in SubscriptionInputs : s.patterns # {}}

NextNotify ==
    \/ \E v \in Values : TrailRoom /\ Create("t1", "api.rate_limit", "production", v)
    \/ \E id \in ConfigIds, v \in Values : TrailRoom /\ Update(id, v)
    \/ \E ver \in VersionInputs : TrailRoom /\ VaultCreate("t1", "manual", ver, TrailValue, 1)
    \/ \E id \in SecretIds : TrailRoom /\ VaultUpdate(id, TrailValue, 1)
    \/ \E input \in NotifiedSubscriptionInputs : Subscribe(input)
    \/ DispatchChange

SpecNotify == Init /\ [][NextNotify]_vars

\* C22: a delivery, whatever its outcomes, leaves the configs, the versions,
\* the audit log, the secrets and the result returned for the write as they
\* are, and changes no subscription but the ones it attempted; a write to a
\* config or a secret leaves the subscriptions as they are.
C22_Step ==
    /\ (lastOp'.op # "subscribe" /\ <<subs, event, attempts, failedSince>>' #
                                    <<subs, event, attempts, failedSince>>) =>
          /\ UNCHANGED <<configVars, secretVars, accessLog, lastOp>>
          /\ \A s \in subs : s \notin subs' => s.id \in attempts'
          /\ \A s \in subs : s.id \in attempts' /\ failedSince'[s.id] > 0 =>
                 \E d \in subs' : d = [s EXCEPT !.failure_count = d.failure_count,
                                                !.status = d.status]
    /\ <<configs, versions, auditLog, secrets, accessLog>>' #
           <<configs, versions, auditLog, secrets, accessLog>> =>
          UNCHANGED <<subs, failedSince>>

SubscribeRequests ==
    [subscriber_id : {"", "svc"}, callback_url : {"", CallbackURL},
     patterns : {{}, {P_db_star}}, tenant_id : Tenants,
     environments : {{}, {"production"}}, status : {"", "paused", "bogus"},
     failure_count : {0, 7}]

\* The WatchSubscription the JSON body binds to.
BoundSubscription(request) ==
    [id |-> 0, subscriber_id |-> request.subscriber_id,
     callback_url |-> request.callback_url, tenant_id |-> request.tenant_id,
     patterns |-> request.patterns, environments |-> request.environments,
     status |-> request.status, last_notified |-> {},
     failure_count |-> request.failure_count]

\* Subscribe: bind the body, service.Subscribe (Validate, then repo.Create);
\* an error is a 500, otherwise 201 with the subscription as it was stored.
WatchHandler_Subscribe(request) ==
    LET w == BoundSubscription(request)
        err == WatchSubscription_Validate(w)
        stored == WatchRepo_Create(subs, nextSubId, WatchSubscription_Defaulted(w))
    IN /\ nextSubId <= MaxSubs
       /\ callIn' = request
       /\ IF err # ""
          THEN /\ callOut' = [status |-> 500,
                              body |-> ErrorBody("Failed to create subscription")]
               /\ lastOp' = Returned("subscribe_request", 0, 0, "validation")
               /\ UNCHANGED <<subs, nextSubId>>
          ELSE /\ subs' = stored
               /\ nextSubId' = nextSubId + 1
               /\ callOut' = [status |-> 201, body |-> SubOf(stored, nextSubId)]
               /\ lastOp' = Returned("subscribe_request", nextSubId, 0, "ok")
       /\ UNCHANGED <<configVars, workerVars, secretVars, vaultVars, catalogVars,
                      event, attempts, failedSince, matchIn, matchOut>>

NextSubscribe == \E request \in SubscribeRequests : WatchHandler_Subscribe(request)

SpecSubscribe == Init /\ [][NextSubscribe]_vars

\* C23: a Subscribe whose subscriber_id, callback_url or pattern list is
\* empty fails and stores nothing; one that succeeds stores exactly one
\* subscription, with status active when none was supplied and with
\* failure_count 0 whatever count the caller supplied.
C23_Step ==
    lastOp'.op = "subscribe_request" =>
        /\ (callIn'.subscriber_id = "" \/ callIn'.callback_url = "" \/ callIn'.patterns = {}) =>
               callOut'.status # 201 /\ subs' = subs
        /\ callOut'.status # 201 => subs' = subs
        /\ callOut'.status = 201 =>
               /\ callOut'.body \notin subs
               /\ subs' = subs \cup {callOut'.body}
               /\ callOut'.body.failure_count = 0
               /\ callOut'.body.subscriber_id = callIn'.subscriber_id
               /\ callIn'.status = "" => callOut'.body.status = "active"
               /\ callIn'.status # "" => callOut'.body.status = callIn'.status

C23_SubscribeValidatesAndDefaults == [][C23_Step]_vars

\* A subscription posted with failure_count 7 and no status was stored with
\* failure_count 0 and status active.
C23_Witness ==
    /\ lastOp.op = "subscribe_request"
    /\ callIn.failure_count = 7
    /\ callIn.status = ""
    /\ callOut.status = 201
    /\ callOut.body \in subs
    /\ callOut.body.failure_count = 0
    /\ callOut.body.status = "active"

\* ---------------------------------------------------------------------------
\* Encryptor, byte by byte
\* ---------------------------------------------------------------------------
\* The vault above keeps a ciphertext as a summary of what Decrypt will meet.
\* Here Encrypt and Decrypt are spelled out on bytes: the nonce, the sealed
\* bytes and the tag, the base64 text around them, and the slicing at the
\* nonce size. AES-GCM is taken as an ideal cipher: the sealed bytes are the
\* plaintext shifted by a stream that key and nonce determine, and the tag
\* names the key, the nonce and the sealed bytes it was computed over. A byte
\* is written as a tuple: <<b>> for a byte of value b, and for a byte of the
\* tag the tuple of what the tag was computed over.
ByteValues == 0..3

Byte(b) == <<b>>

Value(byte) == byte[1]

\* gcm.NonceSize() and gcm.Overhead() of the standard GCM.
NonceSize == 12
TagSize == 16

KeySizes == {16, 32}

CryptoKeys == [id : EncKeys, size : KeySizes]

\* NewEncryptor: a key that is not 32 bytes long is refused.
NewEncryptor(key) ==
    IF key.size # 32 THEN "encryption key must be 32 bytes for AES-256" ELSE ""

Stream(key, nonce, i) == (key.id + Value(nonce[1]) + i) % 4

Tag(key, nonce, body) ==
    <<key.id>> \o [i \in 1..Len(nonce) |-> Value(nonce[i])]
               \o [i \in 1..Len(body) |-> Value(body[i])]

\* gcm.Seal(nonce, nonce, plaintext, nil): the nonce, then the sealed bytes,
\* then the tag.
Seal(key, nonce, plaintext) ==
    LET body == [i \in 1..Len(plaintext) |-> Byte((plaintext[i] + Stream(key, nonce, i)) % 4)]
    IN nonce \o body \o [i \in 1..TagSize |-> Tag(key, nonce, body)]

\* gcm.Open(nil, nonce, cipherBytes, nil): the tag is checked before any
\* plaintext is released.
Open(key, nonce, cipherBytes) ==
    IF Len(cipherBytes) < TagSize
    THEN [err |-> "cipher: message authentication failed", value |-> <<>>]
    ELSE LET n == Len(cipherBytes) - TagSize
             body == SubSeq(cipherBytes, 1, n)
         IN IF \A i \in n + 1..Len(cipherBytes) : cipherBytes[i] = Tag(key, nonce, body)
            THEN [err |-> "",
                  value |-> [i \in 1..n |-> (Value(body[i]) + 4 - Stream(key, nonce, i)) % 4]]
            ELSE [err |-> "cipher: message authentication failed", value |-> <<>>]

\* base64.StdEncoding: a text that carries the bytes; the empty byte string
\* encodes to the empty text, and a text that is not base64 carries none.
NoText == [wellFormed |-> TRUE, data |-> <<>>]

Base64_EncodeToString(data) == [wellFormed |-> TRUE, data |-> data]

Base64_DecodeString(text) ==
    IF text.wellFormed THEN [err |-> "", value |-> text.data]
    ELSE [err |-> "illegal base64 data", value |-> <<>>]

\* Encrypt: empty plaintext is an error; otherwise base64(Seal) under a
\* fresh nonce.
Encrypt(key, plaintext, nonce) ==
    IF plaintext = <<>> THEN [err |-> "plaintext cannot be empty", value |-> NoText]
    ELSE [err |-> "", value |-> Base64_EncodeToString(Seal(key, nonce, plaintext))]

Decrypt_SlicesAtTagSize(key, ciphertext) ==
    LET decoded == Base64_DecodeString(ciphertext)
        data == decoded.value
    IN IF ciphertext = NoText THEN [err |-> "ciphertext cannot be empty", value |-> <<>>]
       ELSE IF decoded.err # "" THEN [err |-> decoded.err, value |-> <<>>]
       ELSE IF Len(data) < TagSize THEN [err |-> "ciphertext too short", value |-> <<>>]
       ELSE Open(key, SubSeq(data, 1, TagSize), SubSeq(data, TagSize + 1, Len(data)))

\* Decrypt: the checks in the order of the code, each with its own error.
Decrypt(key, ciphertext) ==
    LET decoded == Base64_DecodeString(ciphertext)
        data == decoded.value
    IN IF ciphertext = NoText THEN [err |-> "ciphertext cannot be empty", value |-> <<>>]
       ELSE IF decoded.err # "" THEN [err |-> decoded.err, value |-> <<>>]
       ELSE IF Len(data) < NonceSize THEN [err |-> "ciphertext too short", value |-> <<>>]
       ELSE Open(key, SubSeq(data, 1, NonceSize), SubSeq(data, NonceSize + 1, Len(data)))

\* ------------------------------------------------ Encryptor, calls on bytes
PlainBytes == SeqsUpTo({0, 1, 3}, MaxPlainLen)

NonceInputs == {[i \in 1..NonceSize |-> Byte((n + i) % 4)] : n \in Nonces}

NoCrypto ==
    [stage |-> "none", ciphertext |-> NoText, damage |-> "none", usedKey |-> 0,
     err |-> "", plaintext |-> <<>>]

\* One plaintext, the key of the encrypting process and the nonce it draws.
InitCrypto ==
    /\ InitStores
    /\ matchIn = NoMatch
    /\ matchOut = FALSE
    /\ callIn \in [key : CryptoKeys, plaintext : PlainBytes, nonce : NonceInputs]
    /\ callOut = NoCrypto

CryptoFrame ==
    UNCHANGED <<configVars, workerVars, secretVars, vaultVars, watchVars, catalogVars, callIn>>

\* NewEncryptor(key), then Encrypt(plaintext).
CryptoEncrypt ==
    LET enc == Encrypt(callIn.key, callIn.plaintext, callIn.nonce)
    IN /\ callOut.stage = "none"
       /\ IF NewEncryptor(callIn.key) # ""
          THEN /\ callOut' = [callOut EXCEPT !.stage = "refused", !.err = NewEncryptor(callIn.key)]
               /\ lastOp' = Returned("new_encryptor", 0, 0, "error")
          ELSE /\ callOut' = [callOut EXCEPT !.stage = "encrypted", !.err = enc.err,
                                              !.ciphertext = enc.value]
               /\ lastOp' = Returned("encrypt", 0, 0, IF enc.err = "" THEN "ok" ELSE "error")
       /\ CryptoFrame

Encrypted == callOut.stage = "encrypted" /\ callOut.err = "" /\ callOut.damage = "none"

\* The stored text is cut to its first n bytes.
CryptoTruncate(n) ==
    /\ Encrypted
    /\ n < Len(callOut.ciphertext.data)
    /\ callOut' = [callOut EXCEPT
                     !.ciphertext = Base64_EncodeToString(SubSeq(callOut.ciphertext.data, 1, n)),
                     !.damage = IF n < NonceSize THEN "truncated below nonce size"
                                ELSE "truncated"]
    /\ CryptoFrame
    /\ UNCHANGED lastOp

\* One byte of the stored text is changed.
CryptoTamper(i) ==
    LET data == callOut.ciphertext.data
        changed == [data[i] EXCEPT ![1] = (@ + 1) % 4]
    IN /\ Encrypted
       /\ i \in 1..Len(data)
       /\ callOut' = [callOut EXCEPT
                        !.ciphertext = Base64_EncodeToString([data EXCEPT ![i] = changed]),
                        !.damage = "tampered"]
       /\ CryptoFrame
       /\ UNCHANGED lastOp

\* The stored text is no longer base64.
CryptoGarble ==
    /\ Encrypted
    /\ callOut' = [callOut EXCEPT !.ciphertext = [@ EXCEPT !.wellFormed = FALSE],
                                  !.damage = "garbled"]
    /\ CryptoFrame
    /\ UNCHANGED lastOp

\* Decrypt under an Encryptor that holds key.
CryptoDecrypt(key) ==
    LET dec == Decrypt(key, callOut.ciphertext)
    IN /\ callOut.stage = "encrypted"
       /\ callOut.err = ""
       /\ NewEncryptor(key) = ""
       /\ callOut' = [callOut EXCEPT !.stage = "decrypted", !.usedKey = key.id,
                                     !.err = dec.err, !.plaintext = dec.value]
       /\ lastOp' = Returned("decrypt", 0, 0, IF dec.err = "" THEN "ok" ELSE "error")
       /\ CryptoFrame

TextPositions == 0..(NonceSize + MaxPlainLen + TagSize)

NextCrypto ==
    \/ CryptoEncrypt
    \/ \E n \in TextPositions : CryptoTruncate(n)
    \/ \E i \in TextPositions : CryptoTamper(i)
    \/ CryptoGarble
    \/ \E key \in CryptoKeys : CryptoDecrypt(key)

SpecCrypto == InitCrypto /\ [][NextCrypto]_vars

\* C24: a text that Encrypt made of a non-empty plaintext under a 32-byte key
\* and that Decrypt opens under the same key gives no error and the plaintext.
C24_RoundTrip ==
    (callOut.stage = "decrypted" /\ callOut.damage = "none"
        /\ callOut.usedKey = callIn.key.id) =>
        callOut.err = "" /\ callOut.plaintext = callIn.plaintext

C24_Witness ==
    /\ callOut.stage = "decrypted"
    /\ callOut.damage = "none"
    /\ callOut.usedKey = callIn.key.id
    /\ Len(callIn.plaintext) = MaxPlainLen
    /\ callOut.plaintext = callIn.plaintext
    /\ \E i \in 1..MaxPlainLen :
           Value(callOut.ciphertext.data[NonceSize + i]) # callIn.plaintext[i]

IntegrityError == "cipher: message authentication failed"

Damaged ==
    \/ callOut.usedKey # callIn.key.id
    \/ callOut.damage \in {"truncated below nonce size", "tampered"}

\* C25: Decrypt of a text made under another key, cut below the nonce size or
\* with a changed byte fails with no plaintext and with one and the same
\* error.
C25_FailsClosedOneError ==
    (callOut.stage = "decrypted" /\ Damaged) =>
        /\ callOut.plaintext = <<>>
        /\ callOut.err = IntegrityError

\* ----------------------------- properties, version numbers under concurrency
\* C26: once every call has returned, in any interleaving of the store calls
\* of Updates of one config, no two rows of config_versions of a config carry
\* the same version_number, and the config's version is the number of its rows.
C26_VersionNumbersUnique ==
    Settled =>
        /\ \A i, j \in DOMAIN versions :
               (i # j /\ versions[i].config_id = versions[j].config_id) =>
                   versions[i].version_number # versions[j].version_number
        /\ \A c \in configs : c.version = Cardinality(VersionsOf(c.id))

\* ------------------------------------------------- lookups by tenant and key
LookupFrame ==
    UNCHANGED <<configVars, workerVars, secretVars, vaultVars, watchVars, catalogVars>>

\* The lookup of a config by (tenant, environment, key): repo.FindByKey.
ConfigLookup(t, e, k) ==
    LET found == ConfigRepo_FindByKey(configs, t, e, k)
    IN /\ callIn' = [tenant_id |-> t, environment |-> e, key |-> k]
       /\ callOut' = [op |-> "config_lookup", tenants |-> {c.tenant_id : c \in found}]
       /\ lastOp' = Returned("config_lookup", IF found = {} THEN 0 ELSE TheDoc(found).id, 0,
                             IF found = {} THEN "not_found" ELSE "ok")
       /\ LookupFrame

\* The lookup of a secret by (tenant, environment, key): repo.FindByKey.
SecretLookup(t, e, k) ==
    LET found == SecretRepo_FindByKey(secrets, t, e, k)
    IN /\ callIn' = [tenant_id |-> t, environment |-> e, key |-> k]
       /\ callOut' = [op |-> "secret_lookup", tenants |-> {s.tenant_id : s \in found}]
       /\ lastOp' = Returned("secret_lookup", IF found = {} THEN 0 ELSE TheDoc(found).id, 0,
                             IF found = {} THEN "not_found" ELSE "ok")
       /\ LookupFrame

NextLookup ==
    \/ \E t \in Tenants, k \in Keys, v \in Values : Create(t, k, "production", v)
    \/ \E t \in Tenants, ver \in VersionInputs : VaultCreate(t, "manual", ver, TrailValue, 1)
    \/ \E t \in Tenants, k \in Keys : ConfigLookup(t, "production", k)
    \/ \E t \in Tenants : SecretLookup(t, "production", SecretKeyName)

SpecLookup == Init /\ [][NextLookup]_vars

\* C27: the entry a lookup by (tenant, environment, key) returns belongs to
\* the tenant that was asked for: a global entry for the empty tenant, an
\* entry of tenant T for tenant T.
C27_TenantIsolation ==
    callOut.op \in {"config_lookup", "secret_lookup"} =>
        \A owner \in callOut.tenants : owner = callIn.tenant_id

\* ------------------------------------- CountryService, call by call
\* The service keeps one cache key per country code; the repository has a
\* unique index on code.
Country(code) == [code |-> code, status |-> "active"]

CountryRepo_FindByCode(store, code) == {c \in store : c.code = code}

CountryRepo_Create(store, country) == store \cup {country}

\* Find with code $in codes, read along the code index.
CodeOrder == <<"US", "VN">>

InSeq(x, seq) == \E i \in 1..Len(seq) : seq[i] = x

CountryRepo_FindByCodes(store, codes) ==
    SelectSeq(CodeOrder, LAMBDA code : InSeq(code, codes) /\ CountryRepo_FindByCode(store, code) # {})

Cache_Set(cache, key, entry) == [cache EXCEPT ![key] = entry]

Cache_Delete(cache, key) == [cache EXCEPT ![key] = NoEntry]

NoCountryReq == [op |-> "none", id |-> 0, n |-> 0, key |-> "", cfg |-> {},
                 codes |-> <<>>, missing |-> <<>>, fill |-> <<>>]

CountryFrame ==
    UNCHANGED <<configVars, secretVars, vaultVars, watchVars, callVars, lastOp,
                components, nextComponentId, componentCache>>

CountryReturn(w, op, result) ==
    /\ done' = [done EXCEPT ![w] = Returned(op, 0, 0, result)]
    /\ pc' = [pc EXCEPT ![w] = "idle"]
    /\ req' = [req EXCEPT ![w] = NoReq]

\* GetByCode: redisClient.Get.
CountryGetByCode_Cache(w, code) ==
    /\ pc[w] = "idle"
    /\ CountryFrame
    /\ UNCHANGED <<countries, countryCache>>
    /\ IF countryCache[code].text = "NOT_FOUND"
       THEN CountryReturn(w, "get_by_code", "not_found")
       ELSE IF countryCache[code].text = "json"
       THEN CountryReturn(w, "get_by_code", "ok")
       ELSE /\ req' = [req EXCEPT ![w] = [NoCountryReq EXCEPT !.op = "get_by_code", !.key = code]]
            /\ Goto(w, "g_find")
            /\ UNCHANGED done

\* GetByCode: repo.FindByCode.
CountryGetByCode_Find(w) ==
    /\ pc[w] = "g_find"
    /\ req' = [req EXCEPT ![w].cfg = CountryRepo_FindByCode(countries, req[w].key)]
    /\ Goto(w, "g_set")
    /\ CountryFrame
    /\ UNCHANGED <<countries, countryCache, done>>

\* GetByCode: redisClient.Set of the marker or of the country.
CountryGetByCode_Set(w) ==
    /\ pc[w] = "g_set"
    /\ CountryFrame
    /\ UNCHANGED countries
    /\ IF req[w].cfg = {}
       THEN /\ countryCache' = Cache_Set(countryCache, req[w].key, NotFoundEntry)
            /\ CountryReturn(w, "get_by_code", "not_found")
       ELSE /\ countryCache' = Cache_Set(countryCache, req[w].key, JSONEntry(TheDoc(req[w].cfg)))
            /\ CountryReturn(w, "get_by_code", "ok")

\* Create: repo.FindByCode.
CountryCreate_Find(w, code) ==
    /\ pc[w] = "idle"
    /\ CountryFrame
    /\ UNCHANGED <<countries, countryCache>>
    /\ IF CountryRepo_FindByCode(countries, code) # {}
       THEN CountryReturn(w, "create", "conflict")
       ELSE /\ req' = [req EXCEPT ![w] = [NoCountryReq EXCEPT !.op = "create", !.key = code,
                                                               !.cfg = {Country(code)}]]
            /\ Goto(w, "c_insert")
            /\ UNCHANGED done

\* Create: repo.Create; the unique index refuses a second document.
CountryCreate_Insert(w) ==
    /\ pc[w] = "c_insert"
    /\ CountryFrame
    /\ UNCHANGED countryCache
    /\ IF CountryRepo_FindByCode(countries, req[w].key) # {}
       THEN /\ CountryReturn(w, "create", "error")
            /\ UNCHANGED countries
       ELSE /\ countries' = CountryRepo_Create(countries, TheDoc(req[w].cfg))
            /\ Goto(w, "c_delete")
            /\ UNCHANGED <<req, done>>

\* Create: redisClient.Delete of the country's key.
CountryCreate_Invalidate(w) ==
    /\ pc[w] = "c_delete"
    /\ countryCache' = Cache_Delete(countryCache, req[w].key)
    /\ CountryReturn(w, "create", "ok")
    /\ CountryFrame
    /\ UNCHANGED countries

\* GetByCodes: the empty request returns at once.
CountryGetByCodes_Start(w, codes) ==
    /\ pc[w] = "idle"
    /\ CountryFrame
    /\ UNCHANGED <<countries, countryCache>>
    /\ IF Len(codes) = 0
       THEN CountryReturn(w, "get_by_codes", "ok")
       ELSE /\ req' = [req EXCEPT ![w] = [NoCountryReq EXCEPT !.op = "get_by_codes",
                                                               !.codes = codes, !.n = 1]]
            /\ Goto(w, "m_cache")
            /\ UNCHANGED done

\* GetByCodes: one redisClient.Get of the first loop.
CountryGetByCodes_Cache(w) ==
    LET code == req[w].codes[req[w].n]
        entry == countryCache[code]
        missing == IF entry.text = "" THEN Append(req[w].missing, code) ELSE req[w].missing
    IN /\ pc[w] = "m_cache"
       /\ CountryFrame
       /\ UNCHANGED <<countries, countryCache>>
       /\ IF req[w].n < Len(req[w].codes)
          THEN /\ req' = [req EXCEPT ![w].missing = missing, ![w].n = @ + 1]
               /\ UNCHANGED <<pc, done>>
          ELSE IF Len(missing) > 0
          THEN /\ req' = [req EXCEPT ![w].missing = missing]
               /\ Goto(w, "m_find")
               /\ UNCHANGED done
          ELSE CountryReturn(w, "get_by_codes", "ok")

\* What GetByCodes then writes to the cache, in the order it writes it: the
\* countries found, then the marker for each missing code not found.
FillOf(found, missing) ==
    [i \in 1..Len(found) |-> [key |-> found[i], entry |-> JSONEntry(Country(found[i]))]]
    \o [i \in 1..Len(SelectSeq(missing, LAMBDA code : ~InSeq(code, found))) |->
          [key |-> SelectSeq(missing, LAMBDA code : ~InSeq(code, found))[i],
           entry |-> NotFoundEntry]]

\* GetByCodes: repo.FindByCodes of the missing codes.
CountryGetByCodes_Find(w) ==
    /\ pc[w] = "m_find"
    /\ req' = [req EXCEPT ![w].fill = FillOf(CountryRepo_FindByCodes(countries, req[w].missing),
                                             req[w].missing)]
    /\ Goto(w, "m_set")
    /\ CountryFrame
    /\ UNCHANGED <<countries, countryCache, done>>

\* GetByCodes: one redisClient.Set of the two loops after the query.
CountryGetByCodes_Set(w) ==
    /\ pc[w] = "m_set"
    /\ countryCache' = Cache_Set(countryCache, Head(req[w].fill).key, Head(req[w].fill).entry)
    /\ CountryFrame
    /\ UNCHANGED countries
    /\ IF Len(req[w].fill) > 1
       THEN /\ req' = [req EXCEPT ![w].fill = Tail(@)]
            /\ UNCHANGED <<pc, done>>
       ELSE CountryReturn(w, "get_by_codes", "ok")

CodeLists == {<<>>, <<"VN">>, <<"US", "VN">>}

NextCountry ==
    \E w \in Workers :
        \/ \E code \in CountryCodes : CountryGetByCode_Cache(w, code)
        \/ CountryGetByCode_Find(w)
        \/ CountryGetByCode_Set(w)
        \/ \E code \in CountryCodes : CountryCreate_Find(w, code)
        \/ CountryCreate_Insert(w)
        \/ CountryCreate_Invalidate(w)
        \/ \E codes \in CodeLists : CountryGetByCodes_Start(w, codes)
        \/ CountryGetByCodes_Cache(w)
        \/ CountryGetByCodes_Find(w)
        \/ CountryGetByCodes_Set(w)

SpecCountry == Init /\ [][NextCountry]_vars

\* C28: whenever no CountryService call is in flight, a code whose cache key
\* holds the NOT_FOUND marker has no country in the store, in every
\* interleaving of GetByCode, GetByCodes and Create.
C28_NegativeCacheCoherent ==
    Settled =>
        \A code \in CountryCodes :
            countryCache[code].text = "NOT_FOUND" => CountryRepo_FindByCode(countries, code) = {}

\* --------------------------------------------------- AppComponentService
\* One call at a time, each call run to its end.
ComponentNames == {"n1", "n2"}

AppComponent(id, tenantID, code, name) ==
    [id |-> id, tenant_id |-> tenantID, code |-> code, name |-> name]

ComponentRepo_FindByID(store, id) == {c \in store : c.id = id}

ComponentRepo_FindByCode(store, tenantID, code) ==
    {c \in store : c.tenant_id = tenantID /\ c.code = code}

ComponentRepo_FindByIDs(store, ids) == {c \in store : InSeq(c.id, ids)}

ComponentRepo_Create(store, component) == store \cup {component}

\* $set of name, description, icon, version, status, config.
ComponentRepo_Update(store, component) ==
    {IF c.id = component.id THEN [c EXCEPT !.name = component.name] ELSE c : c \in store}

ComponentRepo_Delete(store, id) == {c \in store : c.id # id}

ComponentFrame ==
    UNCHANGED <<configVars, workerVars, secretVars, vaultVars, watchVars, countries, countryCache>>

ComponentCreate(tenantID, code, name) ==
    LET component == AppComponent(nextComponentId, tenantID, code, name)
    IN /\ callIn' = [op |-> "component_create", component |-> component]
       /\ callOut' = NoCall
       /\ ComponentFrame
       /\ IF ComponentRepo_FindByCode(components, tenantID, code) # {}
          THEN UNCHANGED <<components, nextComponentId, componentCache, lastOp>>
          ELSE /\ nextComponentId <= MaxComponents
               /\ components' = ComponentRepo_Create(components, component)
               /\ nextComponentId' = nextComponentId + 1
               /\ componentCache' = Cache_Delete(componentCache, CodeKey(tenantID, code))
               /\ lastOp' = Returned("component_create", component.id, 0, "ok")

ComponentGetByCode(tenantID, code) ==
    LET key == CodeKey(tenantID, code)
        found == ComponentRepo_FindByCode(components, tenantID, code)
    IN /\ callIn' = [op |-> "component_get_by_code", key |-> key]
       /\ ComponentFrame
       /\ UNCHANGED <<components, nextComponentId, lastOp>>
       /\ IF componentCache[key].text = "NOT_FOUND"
          THEN /\ callOut' = [op |-> "component_get_by_code", result |-> {}]
               /\ UNCHANGED componentCache
          ELSE IF componentCache[key].text = "json"
          THEN /\ callOut' = [op |-> "component_get_by_code", result |-> componentCache[key].doc]
               /\ UNCHANGED componentCache
          ELSE IF found = {}
          THEN /\ componentCache' = Cache_Set(componentCache, key, NotFoundEntry)
               /\ callOut' = [op |-> "component_get_by_code", result |-> {}]
          ELSE /\ componentCache' = Cache_Set(componentCache, key, JSONEntry(TheDoc(found)))
               /\ callOut' = [op |-> "component_get_by_code", result |-> found]

\* The component is the request body with the id of the path.
ComponentUpdate(component) ==
    /\ callIn' = [op |-> "component_update", component |-> component]
    /\ callOut' = NoCall
    /\ ComponentFrame
    /\ UNCHANGED nextComponentId
    /\ IF ComponentRepo_FindByID(components, component.id) = {}
       THEN UNCHANGED <<components, componentCache, lastOp>>
       ELSE /\ components' = ComponentRepo_Update(components, component)
            /\ componentCache' = Cache_Delete(componentCache,
                                              CodeKey(component.tenant_id, component.code))
            /\ lastOp' = Returned("component_update", component.id, 0, "ok")

ComponentDelete(id) ==
    LET component == ComponentRepo_FindByID(components, id)
    IN /\ callIn' = [op |-> "component_delete", id |-> id]
       /\ callOut' = NoCall
       /\ ComponentFrame
       /\ UNCHANGED nextComponentId
       /\ IF component = {}
          THEN UNCHANGED <<components, componentCache, lastOp>>
          ELSE /\ components' = ComponentRepo_Delete(components, id)
               /\ componentCache' = Cache_Delete(componentCache,
                                                 CodeKey(TheDoc(component).tenant_id,
                                                         TheDoc(component).code))
               /\ lastOp' = Returned("component_delete", id, 0, "ok")

\* The ids a caller can hold are ids the collection has given out.
IDLists == {<<1>>, <<2>>, <<1, 2>>}

IssuedIDs(ids) == \A i \in 1..Len(ids) : ids[i] < nextComponentId

\* GetByIDs: the cached components, the ids to ask the store for, what the
\* store has of them, and the components returned in the order asked.
ComponentGetByIDs(ids) ==
    LET cached(id) == IF componentCache[IdKey(id)].text = "json"
                      THEN componentCache[IdKey(id)].doc ELSE {}
        missingIDs == SelectSeq(ids, LAMBDA id : componentCache[IdKey(id)].text = "")
        dbComponents == IF Len(missingIDs) > 0
                        THEN ComponentRepo_FindByIDs(components, missingIDs) ELSE {}
        fromStore(id) == IF InSeq(id, missingIDs)
                         THEN ComponentRepo_FindByID(dbComponents, id) ELSE {}
        filled(key) == IF key.kind = "id" /\ InSeq(key.id, missingIDs)
                       THEN IF fromStore(key.id) # {}
                            THEN JSONEntry(TheDoc(fromStore(key.id)))
                            ELSE NotFoundEntry
                       ELSE componentCache[key]
        answers == [i \in 1..Len(ids) |-> cached(ids[i]) \cup fromStore(ids[i])]
    IN /\ IssuedIDs(ids)
       /\ callIn' = [op |-> "component_get_by_ids", ids |-> ids]
       /\ callOut' = [op |-> "component_get_by_ids", ids |-> ids,
                      result |-> SelectSeq(answers, LAMBDA answer : answer # {})]
       /\ componentCache' = [key \in ComponentKeys |-> filled(key)]
       /\ ComponentFrame
       /\ UNCHANGED <<components, nextComponentId, lastOp>>

NextComponent ==
    \/ \E tenantID \in ComponentTenants, code \in ComponentCodes, name \in ComponentNames :
           ComponentCreate(tenantID, code, name)
    \/ \E tenantID \in ComponentTenants, code \in ComponentCodes :
           ComponentGetByCode(tenantID, code)
    \/ \E id \in ComponentIds, tenantID \in ComponentTenants, code \in ComponentCodes,
          name \in ComponentNames :
           ComponentUpdate(AppComponent(id, tenantID, code, name))
    \/ \E id \in ComponentIds : ComponentDelete(id)
    \/ \E ids \in IDLists : ComponentGetByIDs(ids)

SpecComponent == Init /\ [][NextComponent]_vars

\* C29: when the last successful write was an Update or a Delete of an id,
\* a GetByIDs that asks for that id returns what the store holds for it: the
\* updated component, or nothing.
C29_ReadsReflectLastWrite ==
    (/\ callOut.op = "component_get_by_ids"
     /\ lastOp.op \in {"component_update", "component_delete"}
     /\ InSeq(lastOp.id, callOut.ids))
    => {callOut.result[i] : i \in {j \in 1..Len(callOut.result) :
                                      TheDoc(callOut.result[j]).id = lastOp.id}}
         = IF ComponentRepo_FindByID(components, lastOp.id) = {}
           THEN {}
           ELSE {ComponentRepo_FindByID(components, lastOp.id)}

\* ------------------------------------------------------- List handlers
\* Go's integer division truncates toward zero and its remainder has the
\* sign of the dividend; the dividend here is a count, never negative.
GoDiv(a, b) == IF b > 0 THEN a \div b ELSE 0 - (a \div (0 - b))

GoMod(a, b) == a - b * GoDiv(a, b)

\* ShouldBindQuery: page and per_page as sent, 0 for an absent one; a query
\* that does not bind gives page 1, per_page 30.
BoundPagination(query) ==
    IF query.binds
    THEN [page |-> query.page, per_page |-> query.per_page]
    ELSE [page |-> 1, per_page |-> 30]

\* The page and perPage CountryService.List hands to the repository.
CountryService_List(page, perPage) ==
    [page |-> IF page < 1 THEN 1 ELSE page,
     per_page |-> IF perPage < 1 \/ perPage > 100 THEN 30 ELSE perPage]

\* The page and perPage AppComponentService.List hands to the repository.
AppComponentService_List(page, perPage) ==
    [page |-> IF page < 1 THEN 1 ELSE page,
     per_page |-> IF perPage < 1 \/ perPage > 100 THEN 30 ELSE perPage]

\* The handler's answer: a panic on the division by zero, else the
\* pagination block it writes.
ListResponse(op, paging, used, total) ==
    IF paging.per_page = 0
    THEN [op |-> op, panicked |-> TRUE, page |-> paging.page, per_page |-> paging.per_page,
          total_pages |-> 0, total_items |-> total, used |-> used]
    ELSE [op |-> op, panicked |-> FALSE, page |-> paging.page, per_page |-> paging.per_page,
          total_pages |-> GoDiv(total, paging.per_page)
                          + (IF GoMod(total, paging.per_page) > 0 THEN 1 ELSE 0),
          total_items |-> total, used |-> used]

ListFrame ==
    UNCHANGED <<configVars, workerVars, secretVars, vaultVars, watchVars, catalogVars, lastOp>>

\* total is the count the repository's List returns.
CountryHandler_List(query, total) ==
    LET paging == BoundPagination(query)
    IN /\ callIn' = [op |-> "country_list", query |-> query]
       /\ callOut' = ListResponse("country_list", paging,
                                  CountryService_List(paging.page, paging.per_page), total)
       /\ ListFrame

AppComponentHandler_List(query, total) ==
    LET paging == BoundPagination(query)
    IN /\ callIn' = [op |-> "component_list", query |-> query]
       /\ callOut' = ListResponse("component_list", paging,
                                  AppComponentService_List(paging.page, paging.per_page), total)
       /\ ListFrame

PageInputs == {-1, 0, 1, 2}

PerPageInputs == {-1, 0, 1, 2, 3, 30, 100, 101}

ListQueries ==
    [binds : {TRUE}, page : PageInputs, per_page : PerPageInputs]
    \cup {[binds |-> FALSE, page |-> 0, per_page |-> 0]}

NextList ==
    \E query \in ListQueries, total \in 0..MaxTotalItems :
        \/ CountryHandler_List(query, total)
        \/ AppComponentHandler_List(query, total)

SpecList == Init /\ [][NextList]_vars

Ceil(a, b) == (a + b - 1) \div b

\* C30: a List handler never divides by zero, and the page, per_page and
\* total_pages it reports are the page (>= 1) and per_page (1..100) the
\* service queried the store with and ceil(total_items / per_page).
C30_ListPagination ==
    callOut.op \in {"country_list", "component_list"} =>
        /\ ~callOut.panicked
        /\ callOut.page >= 1
        /\ callOut.per_page \in 1..100
        /\ callOut.page = callOut.used.page
        /\ callOut.per_page = callOut.used.per_page
        /\ callOut.total_pages = Ceil(callOut.total_items, callOut.per_page)

====
